---- MODULE Spec2Model ----
(***************************************************************************)
(* Inventory reservation and booking lifecycle of speatre/ticket-booking.  *)
(*                                                                         *)
(* The store (PostgreSQL) holds the events and bookings tables; the cache  *)
(* (Redis) holds the per-event remaining counter, the per-event statistics *)
(* blob and the per-booking timeout marker; the bus (RabbitMQ) carries the *)
(* booking.created messages.  Every store or bus call of a handler is one  *)
(* step of the calling process, so that concurrent handlers interleave     *)
(* between the calls, where the Go code can be preempted; the cache calls  *)
(* that follow a store call belong to its step.  Every call may fail: the  *)
(* failure is a nondeterministic choice.                                    *)
(***************************************************************************)
EXTENDS Integers, Sequences, FiniteSets, TLC

(***************************************************************************)
(* Bounds of the model.                                                    *)
(***************************************************************************)
Cap == 2            \* capacity of every event
MaxQty == 2         \* largest quantity of one CreateBooking call
MaxBookings == 2    \* rows the bookings table can hold

\* the rows of the events table: one event, or two where an operation on
\* one is looked at next to the other
Events == {"e1"}
TwoEvents == {"e1", "e2"}
Clients == {"c1", "c2"}
Workers == {"w1"}
Sweepers == {"s1"}
Admins == {"a1"}
\* callers of the speculative reservation of the cache
Reservers == {"r1", "r2"}
Procs == Clients \cup Workers \cup Sweepers \cup Admins \cup Reservers
\* the processes of the lifecycle specification: one of each kind
Lifecycle == {"c1"} \cup Workers \cup Sweepers
\* a client and the worker that settles its bookings
Settling == {"c1"} \cup Workers

\* CreateBookingRequest.Quantity: binding:"required,min=1,max=10"
MinTicketsPerBooking == 1
Quantities == MinTicketsPerBooking..MaxQty

\* the qty argument of Service.CreateBooking, an int: negative, zero or
\* positive
DirectQuantities == (0 - MaxQty)..MaxQty

\* ticket_price_cents of the events of the model
Prices == {5}
\* ticket_price_cents of the update requests of the model
UpdatePrices == {7}
\* the capacity of an update request: binding "gte=0"
UpdateCapacities == 0..(Cap + 1)

NoProc == "none"
NoReserve == [event |-> "none", qty |-> 0]
NoEvent == [id |-> "none", capacity |-> 0, remaining |-> 0]
\* a key the cache does not hold (redis.Nil: the value "" with an error)
NoEntry == <<>>
\* an entry of the key events:list that is not the JSON of a list of events
Undecodable == <<"not a list">>
\* no List call is in progress: nothing returned, nothing logged
NoListing == [err |-> FALSE, evts |-> <<>>, log |-> {}]
\* the locals of a direct call of event.Service, of the event repository or
\* of ConfirmBooking/CancelBooking: the function called, the remaining of
\* the row it read (e.Remaining), its results, whether its cache write
\* succeeded, and the two sums updateEventStatsCache has scanned
NoTxn == [kind |-> "none", read |-> -1, granted |-> FALSE, err |-> FALSE,
          synced |-> FALSE, tickets |-> 0, revenueCents |-> 0]
\* revenue := float64(revenueCents) / 100.0: the number of currency units,
\* kept as a decimal with two fraction digits (the JSON encoding of the
\* float prints exactly these digits at the magnitudes of the model)
RevenueUnits(cents) == [whole |-> cents \div 100, hundredths |-> cents % 100]

\* no message is waiting to be published
NoMsg == [booking_id |-> 0, event_id |-> "none", quantity |-> 0]

NoStats == [tickets |-> -1, revenue |-> RevenueUnits(-100)]

StatusPending == "PENDING"
StatusConfirmed == "CONFIRMED"
StatusCancelled == "CANCELLED"

Min(a, b) == IF a <= b THEN a ELSE b

VARIABLES
    events,          \* events table: [capacity, remaining, price] per event (committed rows)
    lock,            \* row lock of each events row: the process whose transaction holds it
    bookings,        \* bookings table: sequence of committed rows, the id is the index
    published,       \* booking.created messages in the queue (booking ids)
    cacheRemaining,  \* cache key event:remaining:<id>
    cacheStats,      \* cache key event:<id>:stats
    marker,          \* cache keys booking:pending:<id>
    cacheUp,         \* whether the cache server is reachable at all
    pc,              \* position of each process in its handler
    bid,             \* booking id a process works on (0: none)
    cev,             \* eventID argument of a CreateBooking call
    cqty,            \* qty argument of a CreateBooking call
    seen,            \* b.Status as loaded by s.repo.Get in ConfirmBooking/CancelBooking
    todo,            \* bookings listed by a sweep and not yet cancelled
    ret,             \* return site of the last service call of a process, until consumed
    released,        \* history: per booking, the seats added to remaining by the
                     \* Release of CancelBooking calls that had loaded it as PENDING
    statsWarn,       \* the log of a call: "update stats cache failed" was written
    existing,        \* the events row loaded by Handler.Update (event), until saved
                     \* (the columns the request does not overwrite)
    rsv,             \* eventID and qty arguments of an event.Service.Reserve call
    cacheList,       \* cache key events:list
    listed,          \* what the last event.Service.List call of a process returned
    txn,             \* the locals of a direct call of Release or of a reservation
                     \* primitive, until the caller has taken the result
    cmsg             \* the BookingCreatedMessage a CreateBooking call has built and
                     \* not yet handed to the publisher

vars == <<events, lock, bookings, published, cacheRemaining, cacheStats, marker,
          cacheUp, pc, bid, cev, cqty, seen, todo, ret, released, statsWarn,
          existing, rsv, cacheList, listed, txn, cmsg>>

storeVars == <<events, lock, bookings>>
cacheVars == <<cacheRemaining, cacheStats, marker, cacheUp, cacheList>>
createLocals == <<cev, cqty, cmsg>>

(***************************************************************************)
(* Pure parts of the code.                                                 *)
(***************************************************************************)
BookingIds == 1..MaxBookings

\* b := &Booking{..., UnitPriceCents: ev.TicketPriceCents,
\*               Status: StatusPending}
Booking_NoPrice(e, q, price) ==
    [event |-> e, qty |-> q, price |-> 0, status |-> StatusPending]
Booking_Cancelled(e, q, price) ==
    [event |-> e, qty |-> q, price |-> price, status |-> StatusCancelled]
Booking(e, q, price) ==
    [event |-> e, qty |-> q, price |-> price, status |-> StatusPending]

\* msg := BookingCreatedMessage{BookingID: id, UserID: userID,
\*                              EventID: eventID, Quantity: qty}
\* (the rows of the model have no user column, and neither has the message)
BookingCreatedMessage_RowCount(id, e, q) ==
    [booking_id |-> id, event_id |-> e, quantity |-> id]
BookingCreatedMessage(id, e, q) ==
    [booking_id |-> id, event_id |-> e, quantity |-> q]

\* UPDATE events SET remaining = remaining - ? WHERE id = ? AND remaining >= ?
Reserve_NoCheck(r, q) == [ok |-> TRUE, remaining |-> r - q]
Reserve_OffByOne(r, q) ==
    IF r + 1 >= q THEN [ok |-> TRUE, remaining |-> r - q]
    ELSE [ok |-> FALSE, remaining |-> r]
Reserve_Speculative(r, q) ==
    IF r >= q /\ \A e \in DOMAIN cacheRemaining : cacheRemaining[e] >= q
    THEN [ok |-> TRUE, remaining |-> r - q]
    ELSE [ok |-> FALSE, remaining |-> r]
Reserve(r, q) ==
    IF r >= q THEN [ok |-> TRUE, remaining |-> r - q]
    ELSE [ok |-> FALSE, remaining |-> r]

\* repo.ReserveTx on the row it has locked and read:
\* if e.Remaining < qty { return false, nil }; e.Remaining -= qty; tx.Save(&e)
ReserveTxRow_LessEq(read, q) ==
    IF read <= q THEN [ok |-> FALSE, remaining |-> read]
    ELSE [ok |-> TRUE, remaining |-> read - q]
ReserveTxRow(read, q) ==
    IF read < q THEN [ok |-> FALSE, remaining |-> read]
    ELSE [ok |-> TRUE, remaining |-> read - q]

\* UPDATE events SET remaining = LEAST(remaining + ?, capacity) WHERE id = ?
Release_Unclamped(r, q, capacity) == r + q
Release(r, q, capacity) == Min(r + q, capacity)

\* UPDATE bookings SET status = ? WHERE id = ?
UpdateStatus_NoWhere(bs, id, status) ==
    [b \in DOMAIN bs |-> [bs[b] EXCEPT !.status = status]]
UpdateStatus(bs, id, status) == [bs EXCEPT ![id].status = status]

\* r.db.First(&b, "id = ?", id): the outcomes of the lookup of a booking,
\* which fails when there is no such row and may fail when there is one
Lookup(bs, id) == IF id \in 1..Len(bs) THEN BOOLEAN ELSE {FALSE}

\* json.Marshal(msg) of Publisher.Publish: the body of the message of a
\* booking, an object with its booking_id
Marshal(id) == <<"booking_id", id>>

\* a body that is not JSON: []byte(`invalid json`)
InvalidBodies == {<<"invalid json">>}

\* json.Unmarshal(body, &msg): an error for a body that is not a JSON
\* object, else the booking_id of the object
Unmarshal_Lenient(body) ==
    [ok |-> TRUE, id |-> IF Len(body) = 2 THEN body[2] ELSE 0]
Unmarshal(body) ==
    IF Len(body) = 2 /\ body[1] = "booking_id"
    THEN [ok |-> TRUE, id |-> body[2]]
    ELSE [ok |-> FALSE, id |-> 0]

\* if b.Status == StatusConfirmed { return nil }
ConfirmIsNoop_Never(status) == FALSE
ConfirmIsNoop(status) == status = StatusConfirmed

\* if b.Status == StatusCancelled { return nil }
CancelIsNoop_Never(status) == FALSE
CancelIsNoop(status) == status = StatusCancelled

RECURSIVE SumQty(_, _, _, _)
\* SUM(quantity) over the first n rows of event e whose status is in S
SumQty(bs, n, e, S) ==
    IF n = 0 THEN 0
    ELSE SumQty(bs, n - 1, e, S)
         + (IF bs[n].event = e /\ bs[n].status \in S THEN bs[n].qty ELSE 0)

RECURSIVE SumRevenue(_, _, _, _)
\* SUM(quantity * unit_price_cents) over the first n rows of event e in S
SumRevenue(bs, n, e, S) ==
    IF n = 0 THEN 0
    ELSE SumRevenue(bs, n - 1, e, S)
         + (IF bs[n].event = e /\ bs[n].status \in S
            THEN bs[n].qty * bs[n].price ELSE 0)

\* stats := map[string]interface{}{"tickets_sold": tickets, "revenue":
\* float64(revenueCents) / 100.0}: the blob built from the two sums
StatsBlob(tickets, revenueCents) ==
    [tickets |-> tickets, revenue |-> RevenueUnits(revenueCents)]

\* the two queries of updateEventStatsCache, CONFIRMED rows only, and the
\* blob it builds from them: tickets_sold and revenue
EventStats_AllRows(bs, e) ==
    [tickets |-> SumQty(bs, Len(bs), e,
                        {StatusPending, StatusConfirmed, StatusCancelled}),
     revenue |-> RevenueUnits(SumRevenue(bs, Len(bs), e,
                        {StatusPending, StatusConfirmed, StatusCancelled}))]
EventStats(bs, e) ==
    [tickets |-> SumQty(bs, Len(bs), e, {StatusConfirmed}),
     revenue |-> RevenueUnits(SumRevenue(bs, Len(bs), e, {StatusConfirmed}))]

\* updateEventStatsCache: both queries, then s.cache.Set(cacheKey, data, 0);
\* a failed query (qok) or a failed cache call (sok) leaves the key as it was
updateEventStatsCache(stats, bs, e, qok, sok) ==
    IF qok /\ sok THEN [stats EXCEPT ![e] = EventStats(bs, e)] ELSE stats

\* WHERE status = 'PENDING' AND created_at < cutoff; ids are in creation
\* order, and cutoff counts the rows created before the cutoff time
ListPendingOlderThan_None(bs, cutoff) == {}
ListPendingOlderThan(bs, cutoff) ==
    {b \in 1..cutoff : bs[b].status = StatusPending}

IsErr(r) ==
    r \in {"store_error", "tx_error", "publish_error", "ErrNotEnoughTickets",
           "confirm_get_err", "confirm_update_err",
           "cancel_get_err", "cancel_update_err", "unmarshal_err", "get_err"}

\* r.client.DecrBy(ctx, "event:remaining:"+eventID, qty): the atomic DECRBY
DecrementSeats(counter, e, qty) == [counter EXCEPT ![e] = @ - qty]

\* _ = s.cache.Set(ctx, "event:remaining:"+eventID, ev.Remaining, 0): the
\* counter is overwritten with the remaining of the row read back
SyncRemaining_Incr(counter, e, remaining) == [counter EXCEPT ![e] = @ + 1]
SyncRemaining(counter, e, remaining) == [counter EXCEPT ![e] = remaining]

\* json.Marshal(evts): the entry List stores under events:list
EncodeList(evts) == <<"json", evts>>

\* json.Unmarshal([]byte(raw), &evts): the list of an entry that is the JSON
\* of one, an error for any other entry
DecodeList(raw) ==
    IF Len(raw) = 2 /\ raw[1] = "json"
    THEN [ok |-> TRUE, evts |-> raw[2]]
    ELSE [ok |-> FALSE, evts |-> <<>>]

\* evts, err := s.repo.List(); if err != nil { return nil, err }: the only
\* error List returns is the one of the store
ListErr_Cache(ok, sok) == ~ok \/ ~sok
ListErr(ok, sok) == ~ok

\* Handler.Update for a request with a capacity:
\* if *req.Capacity >= e.Remaining { e.Remaining = minInt(e.Remaining,
\* *req.Capacity) }; e.Capacity = *req.Capacity
ApplyCapacity(e, capacity) ==
    [e EXCEPT !.remaining = IF capacity >= e.remaining
                            THEN Min(e.remaining, capacity)
                            ELSE e.remaining,
              !.capacity = capacity]

\* the outcomes of one cache call: it fails whenever the server is down,
\* and may fail (timeout, connection reset) when it is up
CacheCall == IF cacheUp THEN BOOLEAN ELSE {FALSE}

\* s.db.Transaction(func(tx) error {...}): a value the body wrote is
\* committed when the body returns nil and rolled back when it returns an
\* error
Transaction_NoRollback(ok, before, after) == after
Transaction(ok, before, after) == IF ok THEN after ELSE before

\* what the transaction body returns after s.reserver.ReserveTx:
\* if errDB != nil { return errDB }; if !okDB { return ErrNotEnoughTickets }
\* (ok: the statement ran without an error; granted: it changed the row)
ReserveTxErr_Denied(ok, granted) ==
    IF ~(ok /\ granted) THEN "ErrNotEnoughTickets" ELSE "none"
ReserveTxErr(ok, granted) ==
    IF ~ok THEN "store_error"
    ELSE IF ~granted THEN "ErrNotEnoughTickets"
    ELSE "none"

\* if err != nil { return "", err } after the transaction: CreateBooking goes
\* on to publish only when the transaction committed
AfterTx_Ignore(r) == "cb_publish"
AfterTx(r) == IF IsErr(r) THEN "cb_done" ELSE "cb_publish"

\* transactions that reserved and have not yet committed or rolled back
InTx == {p \in Clients : pc[p] = "cb_tx"}


(***************************************************************************)
(* Initial state: the events exist with nothing sold (event.Service.Create *)
(* stores remaining = capacity and mirrors it into the cache), no booking. *)
(***************************************************************************)
InitLocals ==
    /\ pc = [p \in Procs |-> "idle"]
    /\ bid = [p \in Procs |-> 0]
    /\ cev = [p \in Clients |-> NoProc]
    /\ cqty = [p \in Clients |-> 0]
    /\ seen = [p \in Procs |-> "none"]
    /\ todo = [p \in Sweepers |-> {}]
    /\ ret = [p \in Procs |-> "none"]
    /\ released = [b \in BookingIds |-> 0]
    /\ statsWarn = [p \in Procs |-> FALSE]
    /\ existing = [p \in Admins |-> NoEvent]
    /\ rsv = [p \in Reservers |-> NoReserve]
    /\ listed = [p \in Clients |-> NoListing]
    /\ txn = [p \in Reservers |-> NoTxn]
    /\ cmsg = [p \in Clients |-> NoMsg]

InitProcs ==
    /\ lock = [e \in Events |-> NoProc]
    /\ InitLocals

InitStore ==
    /\ \E price \in Prices :
          events = [e \in Events |->
                      [capacity |-> Cap, remaining |-> Cap, price |-> price]]
    /\ bookings = <<>>
    /\ published = {}
    /\ cacheRemaining = [e \in Events |-> Cap]
    /\ cacheStats = [e \in Events |-> NoStats]
    /\ marker = {}
    /\ cacheList = NoEntry
    /\ InitProcs

\* the lifecycle is explored with the cache server down: no handler branches
\* on the result of a cache call, so the store behaves the same either way
Init == InitStore /\ cacheUp = FALSE

\* the events exist with nothing sold, the cache server being up
InitCached == InitStore /\ cacheUp = TRUE

\* the events exist with nothing sold, the cache server being up or down
InitAnyCache == InitStore /\ cacheUp \in BOOLEAN

\* two events, the cache server being up.  e1 has nothing sold.  The
\* bookings table has room for one more booking of each client: the rows
\* before them are bookings of e2, one ticket each, which were served
\* without a fault and confirmed by the worker, so their seats are taken
\* from e2, the statistics of e2 are cached, their markers are deleted and
\* the cache counter of e2 is as the last ReserveTx wrote it
InitFrame ==
    /\ \E price \in Prices :
         LET n == MaxBookings - Cardinality(Clients)
             rows == [i \in 1..n |->
                        [Booking("e2", MinTicketsPerBooking, price)
                            EXCEPT !.status = StatusConfirmed]]
             sold == SumQty(rows, n, "e2", {StatusConfirmed})
         IN /\ bookings = rows
            /\ events = [e \in TwoEvents |->
                           [capacity |-> Cap,
                            remaining |-> IF e = "e2" THEN Cap - sold ELSE Cap,
                            price |-> price]]
            /\ cacheRemaining =
                  [e \in TwoEvents |->
                     IF e = "e2" /\ n > 0
                     THEN Cap - sold + MinTicketsPerBooking ELSE Cap]
            /\ cacheStats =
                  [e \in TwoEvents |->
                     IF e = "e2" /\ n > 0 THEN EventStats(rows, e) ELSE NoStats]
    /\ lock = [e \in TwoEvents |-> NoProc]
    /\ published = {}
    /\ marker = {}
    /\ cacheList = NoEntry
    /\ cacheUp = TRUE
    /\ InitLocals

\* the events exist with nothing sold; the cache server is up or down and
\* the key events:list is missing or holds an entry that cannot be decoded
InitListed ==
    /\ \E price \in Prices :
          events = [e \in Events |->
                      [capacity |-> Cap, remaining |-> Cap, price |-> price]]
    /\ bookings = <<>>
    /\ published = {}
    /\ cacheRemaining = [e \in Events |-> Cap]
    /\ cacheStats = [e \in Events |-> NoStats]
    /\ marker = {}
    /\ cacheList \in {NoEntry, Undecodable}
    /\ cacheUp \in BOOLEAN
    /\ InitProcs

\* the state after n CreateBooking calls were served one after the other
\* without a fault, the cache server being up: n PENDING rows whose
\* quantities fit the capacity, their messages published, their markers
\* set, the cache counter as the last ReserveTx wrote it
InitBooked ==
    /\ \E n \in 1..MaxBookings, price \in Prices :
         \E es \in [1..n -> Events], qs \in [1..n -> Quantities] :
            LET rows == [i \in 1..n |-> Booking(es[i], qs[i], price)]
                held(e, k) == SumQty(rows, k, e, {StatusPending})
                last(e) == IF \E i \in 1..n : es[i] = e
                           THEN CHOOSE i \in 1..n :
                                   es[i] = e /\ \A j \in 1..n : es[j] = e => j <= i
                           ELSE 0
            IN /\ \A e \in Events : held(e, n) <= Cap
               /\ bookings = rows
               /\ events = [e \in Events |->
                              [capacity |-> Cap, remaining |-> Cap - held(e, n),
                               price |-> price]]
               /\ cacheRemaining =
                     [e \in Events |->
                        IF last(e) = 0 THEN Cap ELSE Cap - held(e, last(e) - 1)]
               /\ published = 1..n
               /\ marker = 1..n
    /\ cacheStats = [e \in Events |-> NoStats]
    /\ cacheList = NoEntry
    /\ cacheUp = TRUE
    /\ InitProcs

(***************************************************************************)
(* CreateBooking (booking/service.go 129-198), called by Handler.Create.   *)
(***************************************************************************)
\* the call: Handler.Create binds the request and calls CreateBooking
CreateBooking(p) ==
    /\ p \in Clients
    /\ pc[p] = "idle"
    /\ \E e \in DOMAIN events, q \in Quantities :
          /\ cev' = [cev EXCEPT ![p] = e]
          /\ cqty' = [cqty EXCEPT ![p] = q]
    /\ pc' = [pc EXCEPT ![p] = "cb_reserve"]
    /\ UNCHANGED <<storeVars, published, cacheVars, listed, txn, cmsg, bid,
                   seen, todo, existing, rsv, ret, released, statsWarn>>

\* Service.CreateBooking called without Handler.Create, which is where the
\* binding of the request checks the quantity: qty is any int
CreateBookingDirect(p) ==
    /\ p \in Clients
    /\ pc[p] = "idle"
    /\ \E e \in DOMAIN events, q \in DirectQuantities :
          /\ cev' = [cev EXCEPT ![p] = e]
          /\ cqty' = [cqty EXCEPT ![p] = q]
    /\ pc' = [pc EXCEPT ![p] = "cb_reserve"]
    /\ UNCHANGED <<storeVars, published, cacheVars, listed, txn, cmsg, bid,
                   seen, todo, existing, rsv, ret, released, statsWarn>>

\* s.reserver.ReserveTx(tx, eventID, qty): the conditional UPDATE inside the
\* transaction takes the row lock and holds it until commit or rollback;
\* then the cache is resynchronised from a read outside the transaction,
\* which still sees the committed row.  A store error or a denial (no row
\* matches the WHERE, so none is locked) ends the call: the transaction
\* rolls back and CreateBooking returns the error
ReserveTxCall(p, ok, cok) ==
    /\ p \in Clients
    /\ pc[p] = "cb_reserve"
    /\ LET e == cev[p]
           r == Reserve(events[e].remaining, cqty[p])
       IN IF ok /\ r.ok
          THEN /\ lock[e] = NoProc
               /\ Len(bookings) + Cardinality(InTx) < MaxBookings
               /\ lock' = [lock EXCEPT ![e] = p]
               /\ cacheRemaining' =
                     IF cok
                     THEN [cacheRemaining EXCEPT ![e] = events[e].remaining]
                     ELSE cacheRemaining
               /\ pc' = [pc EXCEPT ![p] = "cb_tx"]
               /\ UNCHANGED <<ret, cev, cqty>>
          ELSE /\ ret' = [ret EXCEPT ![p] = ReserveTxErr(ok, r.ok)]
               /\ pc' = [pc EXCEPT ![p] = AfterTx(ret'[p])]
               /\ cev' = [cev EXCEPT ![p] = NoProc]
               /\ cqty' = [cqty EXCEPT ![p] = 0]
               /\ UNCHANGED <<lock, cacheRemaining>>
    /\ UNCHANGED <<events, bookings, published, cacheStats, marker, cacheUp,
                   cacheList, listed, txn, cmsg, bid, seen, todo, existing,
                   rsv, released, statsWarn>>

\* the call under every outcome of its store statement and of its cache
\* write
ReserveTx(p) ==
    \E ok \in BOOLEAN, cok \in CacheCall : ReserveTxCall(p, ok, cok)

\* the rest of the transaction body: load the event for its price, insert
\* the PENDING row, commit; an error at any of them rolls the update back.
\* After a commit the message is built from the id of the row and the
\* arguments of the call
CommitTx(p) ==
    /\ p \in Clients
    /\ pc[p] = "cb_tx"
    /\ \E ok \in BOOLEAN :
          /\ events' = [events EXCEPT ![cev[p]].remaining =
                            Transaction(ok, @, Reserve(@, cqty[p]).remaining)]
          /\ bookings' = Transaction(ok, bookings,
                             Append(bookings,
                                Booking(cev[p], cqty[p], events[cev[p]].price)))
          /\ IF ok
             THEN /\ bid' = [bid EXCEPT ![p] = Len(bookings) + 1]
                  /\ cmsg' = [cmsg EXCEPT ![p] =
                               BookingCreatedMessage(bid'[p], cev[p], cqty[p])]
                  /\ pc' = [pc EXCEPT ![p] = AfterTx("none")]
                  /\ ret' = ret
             ELSE /\ ret' = [ret EXCEPT ![p] = "tx_error"]
                  /\ pc' = [pc EXCEPT ![p] = AfterTx("tx_error")]
                  /\ UNCHANGED <<bid, cmsg>>
    /\ lock' = [lock EXCEPT ![cev[p]] = NoProc]
    /\ cev' = [cev EXCEPT ![p] = NoProc]
    /\ cqty' = [cqty EXCEPT ![p] = 0]
    /\ UNCHANGED <<published, cacheVars, listed, txn, seen, todo, existing,
                   rsv, released, statsWarn>>

\* s.publisher.Publish("booking.created", msg), after the commit; on an
\* error CreateBooking returns "", err
Publish(p) ==
    /\ p \in Clients
    /\ pc[p] = "cb_publish"
    /\ \E ok \in BOOLEAN :
          IF ok
          THEN /\ published' = published \cup {cmsg[p].booking_id}
               /\ pc' = [pc EXCEPT ![p] = "cb_marker"]
               /\ UNCHANGED <<ret, bid>>
          ELSE /\ ret' = [ret EXCEPT ![p] = "publish_error"]
               /\ pc' = [pc EXCEPT ![p] = "cb_done"]
               /\ bid' = [bid EXCEPT ![p] = 0]
               /\ published' = published
    /\ cmsg' = [cmsg EXCEPT ![p] = NoMsg]
    /\ UNCHANGED <<storeVars, cacheVars, listed, txn, cev, cqty, seen, todo,
                   existing, rsv, released, statsWarn>>

\* s.cache.Set("booking:pending:"+id, "1", 15*time.Minute); a failure is
\* logged and CreateBooking returns id, nil
SetPendingMarker(p) ==
    /\ p \in Clients
    /\ pc[p] = "cb_marker"
    /\ \E ok \in CacheCall :
          marker' = IF ok THEN marker \cup {bid[p]} ELSE marker
    /\ ret' = [ret EXCEPT ![p] = "ok"]
    /\ pc' = [pc EXCEPT ![p] = "cb_done"]
    /\ UNCHANGED <<storeVars, published, cacheRemaining, cacheStats, cacheUp,
                   cacheList, listed, txn, bid, createLocals, seen, todo,
                   existing, rsv, released, statsWarn>>

\* Handler.Create answers the request with the result of CreateBooking
CreateReturn(p) ==
    /\ p \in Clients
    /\ pc[p] = "cb_done"
    /\ pc' = [pc EXCEPT ![p] = "idle"]
    /\ ret' = [ret EXCEPT ![p] = "none"]
    /\ bid' = [bid EXCEPT ![p] = 0]
    /\ UNCHANGED <<storeVars, published, cacheVars, listed, txn, createLocals,
                   seen, todo, existing, rsv, released, statsWarn>>

(***************************************************************************)
(* ConfirmBooking (booking/service.go 224-249).  Its only caller is        *)
(* HandleBookingCreated, which on an error falls back to CancelBooking     *)
(* (service.go 211-214) and otherwise goes on at "hb_confirmed".           *)
(***************************************************************************)
\* the end of ConfirmBooking: the error of updateEventStatsCache is logged
\* (s.logger.Warn), the one of the Del is dropped (_ =), and the call
\* returns nil
ConfirmFinishResult_Fatal(statsOk, delOk) ==
    IF statsOk /\ delOk THEN "confirm_ok" ELSE "confirm_update_err"
ConfirmFinishResult(statsOk, delOk) == "confirm_ok"

AfterConfirm_NoFallback(r) == "hb_confirmed"
AfterConfirm(r) == IF IsErr(r) THEN "cancel_get" ELSE "hb_confirmed"

ConfirmResult(r) == IF IsErr(r) THEN "none" ELSE r

\* b, err := s.repo.Get(bookingID); if b.Status == StatusConfirmed { return nil }
ConfirmGet(p) ==
    /\ p \in Workers
    /\ pc[p] = "confirm_get"
    /\ \E ok \in Lookup(bookings, bid[p]) :
          LET r == IF ~ok THEN "confirm_get_err"
                   ELSE IF ConfirmIsNoop(bookings[bid[p]].status) THEN "confirm_noop"
                   ELSE "none"
          IN IF r = "none"
             THEN /\ pc' = [pc EXCEPT ![p] = "confirm_update"]
                  /\ seen' = [seen EXCEPT ![p] = bookings[bid[p]].status]
                  /\ ret' = ret
             ELSE /\ pc' = [pc EXCEPT ![p] = AfterConfirm(r)]
                  /\ ret' = [ret EXCEPT ![p] = ConfirmResult(r)]
                  /\ seen' = seen
    /\ UNCHANGED <<storeVars, published, cacheVars, listed, txn, bid,
                   createLocals, todo, existing, rsv, released, statsWarn>>

\* s.repo.UpdateStatus(ctx, bookingID, StatusConfirmed)
ConfirmUpdate(p) ==
    /\ p \in Workers
    /\ pc[p] = "confirm_update"
    /\ \E ok \in BOOLEAN :
          IF ok
          THEN /\ bookings' = UpdateStatus(bookings, bid[p], StatusConfirmed)
               /\ pc' = [pc EXCEPT ![p] = "confirm_finish"]
               /\ ret' = ret
          ELSE /\ bookings' = bookings
               /\ pc' = [pc EXCEPT ![p] = AfterConfirm("confirm_update_err")]
               /\ ret' = [ret EXCEPT ![p] = ConfirmResult("confirm_update_err")]
    /\ seen' = [seen EXCEPT ![p] = "none"]
    /\ UNCHANGED <<events, lock, published, cacheVars, listed, txn, bid,
                   createLocals, todo, existing, rsv, released, statsWarn>>

\* s.updateEventStatsCache(ctx, b.EventID), then
\* s.cache.Del("booking:pending:"+id); failures are logged or ignored and
\* ConfirmBooking returns nil
ConfirmFinish(p) ==
    /\ p \in Workers
    /\ pc[p] = "confirm_finish"
    /\ \E qok \in BOOLEAN, sok \in CacheCall, dok \in CacheCall :
          /\ cacheStats' = updateEventStatsCache(cacheStats, bookings,
                                                 bookings[bid[p]].event, qok, sok)
          /\ statsWarn' = [statsWarn EXCEPT ![p] = ~(qok /\ sok)]
          /\ marker' = IF dok THEN marker \ {bid[p]} ELSE marker
          /\ ret' = [ret EXCEPT ![p] = ConfirmFinishResult(qok /\ sok, dok)]
    /\ pc' = [pc EXCEPT ![p] = "hb_confirmed"]
    /\ UNCHANGED <<storeVars, published, cacheRemaining, cacheUp, cacheList,
                   listed, txn, bid, createLocals, seen, todo, existing, rsv,
                   released>>

(***************************************************************************)
(* CancelBooking (booking/service.go 254-284).  Its callers are the        *)
(* fallback of HandleBookingCreated and the sweeper.                       *)
(***************************************************************************)
AfterCancel(p) == IF p \in Workers THEN "hb_done" ELSE "sw_next"

\* HandleBookingCreated returns what CancelBooking returned; the sweeper's
\* loop discards it
CancelResult_Nil(p, r) == IF p \in Workers THEN "cancel_ok" ELSE "none"
CancelResult(p, r) == IF p \in Workers THEN r ELSE "none"

\* b, err := s.repo.Get(bookingID); if b.Status == StatusCancelled { return nil }
CancelGet(p) ==
    /\ p \in Workers \cup Sweepers
    /\ pc[p] = "cancel_get"
    /\ \E ok \in Lookup(bookings, bid[p]) :
          LET r == IF ~ok THEN "cancel_get_err"
                   ELSE IF CancelIsNoop(bookings[bid[p]].status) THEN "cancel_noop"
                   ELSE "none"
          IN IF r = "none"
             THEN /\ pc' = [pc EXCEPT ![p] = "cancel_update"]
                  /\ seen' = [seen EXCEPT ![p] = bookings[bid[p]].status]
                  /\ ret' = ret
             ELSE /\ pc' = [pc EXCEPT ![p] = AfterCancel(p)]
                  /\ ret' = [ret EXCEPT ![p] = CancelResult(p, r)]
                  /\ seen' = seen
    /\ UNCHANGED <<storeVars, published, cacheVars, listed, txn, bid,
                   createLocals, todo, existing, rsv, released, statsWarn>>

\* s.repo.UpdateStatus(ctx, bookingID, StatusCancelled)
CancelUpdate(p) ==
    /\ p \in Workers \cup Sweepers
    /\ pc[p] = "cancel_update"
    /\ \E ok \in BOOLEAN :
          IF ok
          THEN /\ bookings' = UpdateStatus(bookings, bid[p], StatusCancelled)
               /\ pc' = [pc EXCEPT ![p] = "cancel_release"]
               /\ UNCHANGED <<ret, seen>>
          ELSE /\ bookings' = bookings
               /\ pc' = [pc EXCEPT ![p] = AfterCancel(p)]
               /\ ret' = [ret EXCEPT ![p] = CancelResult(p, "cancel_update_err")]
               /\ seen' = [seen EXCEPT ![p] = "none"]
    /\ UNCHANGED <<events, lock, published, cacheVars, listed, txn, bid,
                   createLocals, todo, existing, rsv, released, statsWarn>>

\* s.reserver.Release(ctx, b.EventID, b.Quantity) (event.Service.Release):
\* the clamped UPDATE waits for the row lock; on success the cache counter
\* is overwritten with the row read back and the cached list is deleted; an
\* error is logged and ignored
CancelRelease(p) ==
    /\ p \in Workers \cup Sweepers
    /\ pc[p] = "cancel_release"
    /\ LET e == bookings[bid[p]].event
           q == bookings[bid[p]].qty
           r == Release(events[e].remaining, q, events[e].capacity)
       IN \E ok \in BOOLEAN, cok \in CacheCall, dok \in CacheCall :
             IF ok
             THEN /\ lock[e] = NoProc
                  /\ events' = [events EXCEPT ![e].remaining = r]
                  /\ released' = IF seen[p] = StatusPending
                                  THEN [released EXCEPT ![bid[p]] =
                                          @ + (r - events[e].remaining)]
                                  ELSE released
                  /\ cacheRemaining' =
                        IF cok THEN [cacheRemaining EXCEPT ![e] = r]
                        ELSE cacheRemaining
                  /\ cacheList' = IF dok THEN NoEntry ELSE cacheList
             ELSE UNCHANGED <<events, released, cacheRemaining, cacheList>>
    /\ pc' = [pc EXCEPT ![p] = "cancel_finish"]
    /\ seen' = [seen EXCEPT ![p] = "none"]
    /\ UNCHANGED <<lock, bookings, published, cacheStats, marker, cacheUp,
                   listed, txn, bid, createLocals, todo, existing, rsv, ret,
                   statsWarn>>

\* s.updateEventStatsCache(ctx, b.EventID), then
\* s.cache.Del("booking:pending:"+id); failures are logged or ignored and
\* CancelBooking returns nil
CancelFinish(p) ==
    /\ p \in Workers \cup Sweepers
    /\ pc[p] = "cancel_finish"
    /\ \E qok \in BOOLEAN, sok \in CacheCall, dok \in CacheCall :
          /\ cacheStats' = updateEventStatsCache(cacheStats, bookings,
                                                 bookings[bid[p]].event, qok, sok)
          /\ statsWarn' = [statsWarn EXCEPT ![p] = ~(qok /\ sok)]
          /\ marker' = IF dok THEN marker \ {bid[p]} ELSE marker
    /\ ret' = [ret EXCEPT ![p] = CancelResult(p, "cancel_ok")]
    /\ pc' = [pc EXCEPT ![p] = AfterCancel(p)]
    /\ UNCHANGED <<storeVars, published, cacheRemaining, cacheUp, cacheList,
                   listed, txn, bid, createLocals, seen, todo, existing, rsv,
                   released>>

(***************************************************************************)
(* HandleBookingCreated (booking/service.go 203-219): the worker.  The     *)
(* consumer takes its messages with auto-ack (AMQPConsumer.Consume), so a  *)
(* message handed to the handler has left the queue.                       *)
(***************************************************************************)
\* a delivery: json.Unmarshal(body, &msg), then s.ConfirmBooking(msg.BookingID)
HandleBookingCreated(p) ==
    /\ p \in Workers
    /\ pc[p] = "idle"
    /\ \E b \in published :
          /\ bid' = [bid EXCEPT ![p] = b]
          /\ published' = published \ {b}
    /\ pc' = [pc EXCEPT ![p] = "confirm_get"]
    /\ UNCHANGED <<storeVars, cacheVars, listed, txn, createLocals, seen,
                   todo, existing, rsv, ret, released, statsWarn>>

\* a delivery of a message that no CreateBooking call published: a body
\* that json.Unmarshal rejects (return err), or the message of a booking id
\* the ledger does not hold
HandleBody(p, body) ==
    /\ p \in Workers
    /\ pc[p] = "idle"
    /\ LET msg == Unmarshal(body)
       IN IF msg.ok
          THEN /\ bid' = [bid EXCEPT ![p] = msg.id]
               /\ pc' = [pc EXCEPT ![p] = "confirm_get"]
               /\ ret' = ret
          ELSE /\ pc' = [pc EXCEPT ![p] = "hb_done"]
               /\ ret' = [ret EXCEPT ![p] = "unmarshal_err"]
               /\ bid' = bid
    /\ UNCHANGED <<storeVars, published, cacheVars, listed, txn, createLocals,
                   seen, todo, existing, rsv, released, statsWarn>>

\* the bodies of such messages
ForeignBodies ==
    InvalidBodies \cup {Marshal(id) : id \in BookingIds \ (1..Len(bookings))}

\* the bus delivers at least once: once the queue is drained, the message
\* of any booking may come again (it waits in the queue until the worker has
\* returned from the previous one, so it is put there when the worker is idle)
Redeliver ==
    /\ published = {}
    /\ \A p \in Workers : pc[p] = "idle"
    /\ \E b \in 1..Len(bookings) : published' = {b}
    /\ UNCHANGED <<storeVars, cacheVars, listed, txn, pc, bid, createLocals,
                   seen, todo, existing, rsv, ret, released, statsWarn>>

\* ConfirmBooking returned nil:
\* _ = s.cache.Del("booking:pending:"+msg.BookingID); return nil
HandleConfirmed(p) ==
    /\ p \in Workers
    /\ pc[p] = "hb_confirmed"
    /\ \E dok \in CacheCall :
          marker' = IF dok THEN marker \ {bid[p]} ELSE marker
    /\ pc' = [pc EXCEPT ![p] = "idle"]
    /\ ret' = [ret EXCEPT ![p] = "none"]
    /\ bid' = [bid EXCEPT ![p] = 0]
    /\ statsWarn' = [statsWarn EXCEPT ![p] = FALSE]
    /\ UNCHANGED <<storeVars, published, cacheRemaining, cacheStats, cacheUp,
                   cacheList, listed, txn, createLocals, seen, todo, existing,
                   rsv, released>>

\* ConfirmBooking failed: return s.CancelBooking(ctx, msg.BookingID)
HandleReturn(p) ==
    /\ p \in Workers
    /\ pc[p] = "hb_done"
    /\ pc' = [pc EXCEPT ![p] = "idle"]
    /\ ret' = [ret EXCEPT ![p] = "none"]
    /\ bid' = [bid EXCEPT ![p] = 0]
    /\ statsWarn' = [statsWarn EXCEPT ![p] = FALSE]
    /\ UNCHANGED <<storeVars, published, cacheVars, listed, txn, createLocals,
                   seen, todo, existing, rsv, released>>

(***************************************************************************)
(* Service.Get (booking/service.go 335-337), called by Handler.Get.        *)
(***************************************************************************)
\* return s.repo.Get(id): the row, or the error of the lookup
GetBooking(p) ==
    /\ p \in Clients
    /\ pc[p] = "idle"
    /\ \E id \in BookingIds :
          /\ bid' = [bid EXCEPT ![p] = id]
          /\ \E ok \in Lookup(bookings, id) :
                ret' = [ret EXCEPT ![p] = IF ok THEN "found" ELSE "get_err"]
    /\ pc' = [pc EXCEPT ![p] = "gb_done"]
    /\ UNCHANGED <<storeVars, published, cacheVars, listed, txn, createLocals,
                   seen, todo, existing, rsv, released, statsWarn>>

\* Handler.Get answers the request
GetReturn(p) ==
    /\ p \in Clients
    /\ pc[p] = "gb_done"
    /\ pc' = [pc EXCEPT ![p] = "idle"]
    /\ ret' = [ret EXCEPT ![p] = "none"]
    /\ bid' = [bid EXCEPT ![p] = 0]
    /\ UNCHANGED <<storeVars, published, cacheVars, listed, txn, createLocals,
                   seen, todo, existing, rsv, released, statsWarn>>

(***************************************************************************)
(* The stale-reservation sweeper: lists the PENDING bookings older than    *)
(* the cutoff and calls CancelBooking on each.                             *)
(***************************************************************************)
\* one tick of the sweeper: s.repo.ListPendingOlderThan(ctx, cutoff); a tick
\* that lists nothing changes nothing
Sweep(p) ==
    /\ p \in Sweepers
    /\ pc[p] = "idle"
    /\ \E cutoff \in 1..Len(bookings) :
          /\ ListPendingOlderThan(bookings, cutoff) # {}
          /\ todo' = [todo EXCEPT ![p] = ListPendingOlderThan(bookings, cutoff)]
    /\ pc' = [pc EXCEPT ![p] = "sw_next"]
    /\ UNCHANGED <<storeVars, published, cacheVars, listed, txn, bid,
                   createLocals, seen, ret, released, statsWarn, existing,
                   rsv>>

\* the loop over the listed bookings: CancelBooking(ctx, b.ID) for the next
\* one, whatever the previous call returned; the tick ends when none is left
SweepNext(p) ==
    /\ p \in Sweepers
    /\ pc[p] = "sw_next"
    /\ IF todo[p] = {}
       THEN /\ pc' = [pc EXCEPT ![p] = "idle"]
            /\ bid' = [bid EXCEPT ![p] = 0]
            /\ todo' = todo
       ELSE \E b \in todo[p] :
               /\ bid' = [bid EXCEPT ![p] = b]
               /\ todo' = [todo EXCEPT ![p] = @ \ {b}]
               /\ pc' = [pc EXCEPT ![p] = "cancel_get"]
    /\ statsWarn' = [statsWarn EXCEPT ![p] = FALSE]
    /\ UNCHANGED <<storeVars, published, cacheVars, listed, txn, createLocals,
                   seen, ret, released, existing, rsv>>

(***************************************************************************)
(* Handler.Update of the events (PUT /admin/events/{id}): loads the row,   *)
(* overlays the fields of the request and saves the whole row.  The        *)
(* requests of the model carry ticket_price_cents only.                    *)
(***************************************************************************)
\* existing, err := h.svc.Get(c, id): a plain read, it sees the committed row
\* (a request whose load fails is answered 404 and changes nothing)
UpdateGet(p) ==
    /\ p \in Admins
    /\ pc[p] = "idle"
    /\ \E e \in DOMAIN events :
          existing' = [existing EXCEPT ![p] =
                          [id |-> e, capacity |-> events[e].capacity,
                           remaining |-> events[e].remaining]]
    /\ pc' = [pc EXCEPT ![p] = "up_save"]
    /\ UNCHANGED <<storeVars, published, cacheVars, listed, txn, bid,
                   createLocals, seen, todo, ret, released, statsWarn, rsv>>

\* e.TicketPriceCents = *req.TicketPriceCents; h.svc.Update(c, e): r.db.Save(e)
\* writes every column of the row from the loaded copy, waiting for the row
\* lock, then the cache counter is set to e.Remaining and the cached list
\* is deleted; on an error nothing is written
UpdateSave(p) ==
    /\ p \in Admins
    /\ pc[p] = "up_save"
    /\ \E price \in UpdatePrices, ok \in BOOLEAN, cok \in CacheCall,
          dok \in CacheCall :
          LET e == existing[p].id
          IN IF ok
             THEN /\ lock[e] = NoProc
                  /\ events' = [events EXCEPT ![e] =
                                   [capacity |-> existing[p].capacity,
                                    remaining |-> existing[p].remaining,
                                    price |-> price]]
                  /\ cacheRemaining' =
                        IF cok
                        THEN [cacheRemaining EXCEPT ![e] = existing[p].remaining]
                        ELSE cacheRemaining
                  /\ cacheList' = IF dok THEN NoEntry ELSE cacheList
             ELSE UNCHANGED <<events, cacheRemaining, cacheList>>
    /\ existing' = [existing EXCEPT ![p] = NoEvent]
    /\ pc' = [pc EXCEPT ![p] = "idle"]
    /\ UNCHANGED <<lock, bookings, published, cacheStats, marker, cacheUp,
                   listed, txn, bid, createLocals, seen, todo, ret, released,
                   statsWarn, rsv>>

\* the same for a request that carries a capacity and no price: the loaded
\* copy with the capacity of the request applied is saved, every column of
\* it (the price column gets the loaded price, which is the one of the row:
\* only updates write it)
UpdateSaveCapacity(p) ==
    /\ p \in Admins
    /\ pc[p] = "up_save"
    /\ \E capacity \in UpdateCapacities, ok \in BOOLEAN, cok \in CacheCall,
          dok \in CacheCall :
          LET e == existing[p].id
              row == ApplyCapacity(existing[p], capacity)
          IN IF ok
             THEN /\ lock[e] = NoProc
                  /\ events' = [events EXCEPT ![e] =
                                   [capacity |-> row.capacity,
                                    remaining |-> row.remaining,
                                    price |-> events[e].price]]
                  /\ cacheRemaining' =
                        IF cok
                        THEN [cacheRemaining EXCEPT ![e] = row.remaining]
                        ELSE cacheRemaining
                  /\ cacheList' = IF dok THEN NoEntry ELSE cacheList
             ELSE UNCHANGED <<events, cacheRemaining, cacheList>>
    /\ existing' = [existing EXCEPT ![p] = NoEvent]
    /\ pc' = [pc EXCEPT ![p] = "idle"]
    /\ UNCHANGED <<lock, bookings, published, cacheStats, marker, cacheUp,
                   listed, txn, bid, createLocals, seen, todo, ret, released,
                   statsWarn, rsv>>

(***************************************************************************)
(* event.Service.List (part_005 352-382): the list of the events, from     *)
(* the cache key events:list or from the store.                            *)
(***************************************************************************)
\* raw, err := s.cache.Get(ctx, "events:list"): an entry that decodes is
\* returned at once; a failed call or a missing key (redis.Nil is an error
\* too) and an entry that does not decode are logged and List goes on
ListGet(p) ==
    /\ p \in Clients
    /\ pc[p] = "idle"
    /\ \E gok \in CacheCall :
          LET got == gok /\ cacheList # NoEntry
              d == DecodeList(cacheList)
          IN IF got /\ d.ok
             THEN /\ listed' = [listed EXCEPT ![p] =
                                   [err |-> FALSE, evts |-> d.evts,
                                    log |-> {"from cache"}]]
                  /\ pc' = [pc EXCEPT ![p] = "ls_done"]
             ELSE /\ listed' = [listed EXCEPT ![p] =
                                   [err |-> FALSE, evts |-> <<>>,
                                    log |-> IF got THEN {"unmarshal failed"}
                                            ELSE {"get failed"}]]
                  /\ pc' = [pc EXCEPT ![p] = "ls_store"]
    /\ UNCHANGED <<storeVars, published, cacheVars, txn, bid, createLocals,
                   seen, todo, ret, released, statsWarn, existing, rsv>>

\* evts, err := s.repo.List(); then s.cache.Set("events:list", data,
\* 30*time.Second), whose failure is logged only
ListStore(p) ==
    /\ p \in Clients
    /\ pc[p] = "ls_store"
    /\ \E ok \in BOOLEAN, sok \in CacheCall :
          IF ~ok
          THEN /\ listed' = [listed EXCEPT ![p].err = TRUE,
                                           ![p].log = @ \cup {"db failed"}]
               /\ cacheList' = cacheList
          ELSE /\ listed' = [listed EXCEPT
                                ![p].err = ListErr(ok, sok),
                                ![p].evts = IF ListErr(ok, sok) THEN <<>>
                                            ELSE events,
                                ![p].log = @ \cup {"from database"} \cup
                                           (IF sok THEN {} ELSE {"set failed"})]
               /\ cacheList' = IF sok THEN EncodeList(events) ELSE cacheList
    /\ pc' = [pc EXCEPT ![p] = "ls_done"]
    /\ UNCHANGED <<storeVars, published, cacheRemaining, cacheStats, marker,
                   cacheUp, txn, bid, createLocals, seen, todo, ret, released,
                   statsWarn, existing, rsv>>

\* Handler.List answers the request
ListReturn(p) ==
    /\ p \in Clients
    /\ pc[p] = "ls_done"
    /\ pc' = [pc EXCEPT ![p] = "idle"]
    /\ listed' = [listed EXCEPT ![p] = NoListing]
    /\ UNCHANGED <<storeVars, published, cacheVars, txn, bid, createLocals,
                   seen, todo, ret, released, statsWarn, existing, rsv>>

\* the entry of events:list expires 30 seconds after it was set
ListExpire ==
    /\ cacheList # NoEntry
    /\ cacheList' = NoEntry
    /\ UNCHANGED <<storeVars, published, cacheRemaining, cacheStats, marker,
                   cacheUp, listed, txn, pc, bid, createLocals, seen, todo,
                   ret, released, statsWarn, existing, rsv>>

(***************************************************************************)
(* event.Service.Reserve (part_005 465-479): the speculative reservation   *)
(* on the cache counter.                                                   *)
(***************************************************************************)
\* remaining, err := s.cache.DecrementSeats(ctx, eventID, qty): on an error
\* Reserve returns false, err; when remaining >= 0 it returns true, nil.
\* The counter has no floor in the code; the model follows it down to -Cap
ServiceReserve(p) ==
    /\ p \in Reservers
    /\ pc[p] = "idle"
    /\ \E e \in DOMAIN events, q \in Quantities, ok \in CacheCall :
          /\ cacheRemaining[e] >= -Cap
          /\ IF ok
             THEN /\ cacheRemaining' = DecrementSeats(cacheRemaining, e, q)
                  /\ IF cacheRemaining'[e] < 0
                     THEN /\ pc' = [pc EXCEPT ![p] = "rs_rollback"]
                          /\ rsv' = [rsv EXCEPT ![p] = [event |-> e, qty |-> q]]
                          /\ ret' = ret
                     ELSE /\ pc' = [pc EXCEPT ![p] = "rs_done"]
                          /\ ret' = [ret EXCEPT ![p] = "granted"]
                          /\ rsv' = rsv
             ELSE /\ pc' = [pc EXCEPT ![p] = "rs_done"]
                  /\ ret' = [ret EXCEPT ![p] = "cache_error"]
                  /\ UNCHANGED <<cacheRemaining, rsv>>
    /\ UNCHANGED <<storeVars, published, cacheStats, marker, cacheUp,
                   cacheList, listed, txn, bid, createLocals, seen, todo,
                   released, statsWarn, existing>>

\* _, _ = s.cache.DecrementSeats(ctx, eventID, -qty) // rollback
\* then return false, nil, whatever the rollback returned
ReserveRollback(p) ==
    /\ p \in Reservers
    /\ pc[p] = "rs_rollback"
    /\ \E ok \in CacheCall :
          cacheRemaining' =
             IF ok THEN DecrementSeats(cacheRemaining, rsv[p].event, -rsv[p].qty)
             ELSE cacheRemaining
    /\ pc' = [pc EXCEPT ![p] = "rs_done"]
    /\ ret' = [ret EXCEPT ![p] = "denied"]
    /\ rsv' = [rsv EXCEPT ![p] = NoReserve]
    /\ UNCHANGED <<storeVars, published, cacheStats, marker, cacheUp,
                   cacheList, listed, txn, bid, createLocals, seen, todo,
                   released, statsWarn, existing>>

\* the caller takes the result
ReserveReturn(p) ==
    /\ p \in Reservers
    /\ pc[p] = "rs_done"
    /\ pc' = [pc EXCEPT ![p] = "idle"]
    /\ ret' = [ret EXCEPT ![p] = "none"]
    /\ UNCHANGED <<storeVars, published, cacheVars, listed, txn, bid,
                   createLocals, seen, todo, released, statsWarn, existing,
                   rsv>>

(***************************************************************************)
(* event.Service.Release (part_005 514-528) called directly, with any      *)
(* quantity: the clamped UPDATE, the read of the row, the cache writes.    *)
(***************************************************************************)
\* s.db.WithContext(ctx).Exec("UPDATE events SET remaining =
\* LEAST(remaining + ?, capacity) WHERE id = ?"): the statement waits for
\* the row lock and commits by itself; on an error Release returns it
ReleaseExec(p) ==
    /\ p \in Reservers
    /\ pc[p] = "idle"
    /\ \E e \in DOMAIN events, q \in Quantities, ok \in BOOLEAN :
          /\ rsv' = [rsv EXCEPT ![p] = [event |-> e, qty |-> q]]
          /\ IF ok
             THEN /\ lock[e] = NoProc
                  /\ events' = [events EXCEPT ![e].remaining =
                                   Release(@, q, events[e].capacity)]
                  /\ pc' = [pc EXCEPT ![p] = "rl_get"]
                  /\ ret' = ret
             ELSE /\ events' = events
                  /\ pc' = [pc EXCEPT ![p] = "rl_done"]
                  /\ ret' = [ret EXCEPT ![p] = "store_error"]
    /\ UNCHANGED <<lock, bookings, published, cacheVars, listed, txn, bid,
                   createLocals, seen, todo, released, statsWarn, existing>>

\* ev, err := s.repo.Get(eventID): a plain read of the committed row; when
\* it fails the cache is left alone and Release returns nil
ReleaseGet(p) ==
    /\ p \in Reservers
    /\ pc[p] = "rl_get"
    /\ \E ok \in BOOLEAN :
          IF ok
          THEN /\ txn' = [txn EXCEPT ![p].read = events[rsv[p].event].remaining]
               /\ pc' = [pc EXCEPT ![p] = "rl_set"]
               /\ ret' = ret
          ELSE /\ txn' = txn
               /\ pc' = [pc EXCEPT ![p] = "rl_done"]
               /\ ret' = [ret EXCEPT ![p] = "released"]
    /\ UNCHANGED <<storeVars, published, cacheVars, listed, bid, createLocals,
                   seen, todo, released, statsWarn, existing, rsv>>

\* _ = s.cache.Set(ctx, "event:remaining:"+eventID, ev.Remaining, 0)
\* _ = s.cache.Del(ctx, "events:list"); return nil
ReleaseSet(p) ==
    /\ p \in Reservers
    /\ pc[p] = "rl_set"
    /\ \E cok \in CacheCall, dok \in CacheCall :
          /\ cacheRemaining' =
                IF cok
                THEN SyncRemaining(cacheRemaining, rsv[p].event, txn[p].read)
                ELSE cacheRemaining
          /\ cacheList' = IF dok THEN NoEntry ELSE cacheList
          /\ txn' = [txn EXCEPT ![p].synced = cok]
    /\ pc' = [pc EXCEPT ![p] = "rl_done"]
    /\ ret' = [ret EXCEPT ![p] = "released"]
    /\ UNCHANGED <<storeVars, published, cacheStats, marker, cacheUp, listed,
                   bid, createLocals, seen, todo, released, statsWarn,
                   existing, rsv>>

\* the caller takes the result
ReleaseReturn(p) ==
    /\ p \in Reservers
    /\ pc[p] = "rl_done"
    /\ pc' = [pc EXCEPT ![p] = "idle"]
    /\ ret' = [ret EXCEPT ![p] = "none"]
    /\ rsv' = [rsv EXCEPT ![p] = NoReserve]
    /\ txn' = [txn EXCEPT ![p] = NoTxn]
    /\ UNCHANGED <<storeVars, published, cacheVars, listed, bid, createLocals,
                   seen, todo, released, statsWarn, existing>>

(***************************************************************************)
(* The two reservation primitives of the store, each called in a           *)
(* transaction of its own: event.Service.ReserveTx (part_005 484-500),     *)
(* which runs the conditional UPDATE of repo.Reserve (repository.go        *)
(* 53-61), and repo.ReserveTx (repository.go 64-79), which locks the row,  *)
(* reads it, and saves it.                                                 *)
(***************************************************************************)
\* s.repo.Reserve(tx, eventID, qty): an error of the statement is returned;
\* a statement that matches no row gives false, nil; one that matches takes
\* the row lock until the transaction ends, and the cache counter is then
\* set from a read outside the transaction, which sees the committed row
ServiceReserveTx(p) ==
    /\ p \in Reservers
    /\ pc[p] = "idle"
    /\ \E e \in DOMAIN events, q \in Quantities, ok \in BOOLEAN, cok \in CacheCall :
          LET r == Reserve(events[e].remaining, q)
          IN /\ rsv' = [rsv EXCEPT ![p] = [event |-> e, qty |-> q]]
             /\ IF ok /\ r.ok
                THEN /\ lock[e] = NoProc
                     /\ lock' = [lock EXCEPT ![e] = p]
                     /\ cacheRemaining' =
                           IF cok
                           THEN [cacheRemaining EXCEPT ![e] = events[e].remaining]
                           ELSE cacheRemaining
                     /\ txn' = [txn EXCEPT ![p] =
                                  [NoTxn EXCEPT !.kind = "Reserve",
                                                !.granted = TRUE,
                                                !.synced = cok]]
                     /\ pc' = [pc EXCEPT ![p] = "pr_commit"]
                ELSE /\ txn' = [txn EXCEPT ![p] =
                                  [NoTxn EXCEPT !.kind = "Reserve",
                                                !.err = ~ok]]
                     /\ pc' = [pc EXCEPT ![p] = "pr_done"]
                     /\ UNCHANGED <<lock, cacheRemaining>>
    /\ UNCHANGED <<events, bookings, published, cacheStats, marker, cacheUp,
                   cacheList, listed, bid, createLocals, seen, todo, ret,
                   released, statsWarn, existing>>

\* tx.Clauses(clause.Locking{Strength: "UPDATE"}).First(&e, "id = ?", id):
\* SELECT ... FOR UPDATE waits for the row lock, takes it and reads the row
RepoLockRead(p) ==
    /\ p \in Reservers
    /\ pc[p] = "idle"
    /\ \E e \in DOMAIN events, q \in Quantities, ok \in BOOLEAN :
          /\ rsv' = [rsv EXCEPT ![p] = [event |-> e, qty |-> q]]
          /\ IF ok
             THEN /\ lock[e] = NoProc
                  /\ lock' = [lock EXCEPT ![e] = p]
                  /\ txn' = [txn EXCEPT ![p] =
                               [NoTxn EXCEPT !.kind = "ReserveTx",
                                             !.read = events[e].remaining]]
                  /\ pc' = [pc EXCEPT ![p] = "pr_check"]
             ELSE /\ lock' = lock
                  /\ txn' = [txn EXCEPT ![p] =
                               [NoTxn EXCEPT !.kind = "ReserveTx",
                                             !.err = TRUE]]
                  /\ pc' = [pc EXCEPT ![p] = "pr_done"]
    /\ UNCHANGED <<events, bookings, published, cacheVars, listed, bid,
                   createLocals, seen, todo, ret, released, statsWarn,
                   existing>>

\* if e.Remaining < qty { return false, nil }; e.Remaining -= qty;
\* tx.Save(&e): the new remaining is written inside the transaction
RepoCheckSave(p) ==
    /\ p \in Reservers
    /\ pc[p] = "pr_check"
    /\ \E ok \in BOOLEAN :
          LET r == ReserveTxRow(txn[p].read, rsv[p].qty)
          IN txn' = [txn EXCEPT ![p].granted = r.ok /\ ok,
                                ![p].err = r.ok /\ ~ok,
                                ![p].read = IF r.ok /\ ok THEN r.remaining ELSE @]
    /\ pc' = [pc EXCEPT ![p] = "pr_commit"]
    /\ UNCHANGED <<storeVars, published, cacheVars, listed, bid, createLocals,
                   seen, todo, ret, released, statsWarn, existing, rsv>>

\* the transaction of the caller ends: what a granted call wrote is
\* committed, or rolled back when the commit fails or the call failed; the
\* row lock is given up
TxCommit(p) ==
    /\ p \in Reservers
    /\ pc[p] = "pr_commit"
    /\ \E ok \in BOOLEAN :
          LET e == rsv[p].event
              written == IF txn[p].kind = "Reserve"
                         THEN Reserve(events[e].remaining, rsv[p].qty).remaining
                         ELSE txn[p].read
          IN /\ events' = [events EXCEPT ![e].remaining =
                              Transaction(ok /\ txn[p].granted, @, written)]
             /\ txn' = [txn EXCEPT ![p].granted = @ /\ ok,
                                   ![p].err = @ \/ ~ok]
             /\ lock' = [lock EXCEPT ![e] = NoProc]
    /\ pc' = [pc EXCEPT ![p] = "pr_done"]
    /\ UNCHANGED <<bookings, published, cacheVars, listed, bid, createLocals,
                   seen, todo, ret, released, statsWarn, existing, rsv>>

\* the caller takes the result
TxReturn(p) ==
    /\ p \in Reservers
    /\ pc[p] = "pr_done"
    /\ pc' = [pc EXCEPT ![p] = "idle"]
    /\ rsv' = [rsv EXCEPT ![p] = NoReserve]
    /\ txn' = [txn EXCEPT ![p] = NoTxn]
    /\ UNCHANGED <<storeVars, published, cacheVars, listed, bid, createLocals,
                   seen, todo, ret, released, statsWarn, existing>>

(***************************************************************************)
(* ConfirmBooking (booking/service.go 224-249) and CancelBooking (254-284) *)
(* called directly, as the BookingService interface allows and as several  *)
(* worker processes on one queue do, with updateEventStatsCache (289-331)  *)
(* statement by statement: the two sums are two queries, and the cache     *)
(* write follows them.                                                     *)
(***************************************************************************)
\* b, err := s.repo.Get(bookingID), then the test of b.Status: an error is
\* returned, a booking already in the target status makes the call return
\* nil.  The calls of the model are made for bookings that are PENDING
\* when the call begins
DirectGet(p) ==
    /\ p \in Reservers
    /\ pc[p] = "idle"
    /\ \E b \in 1..Len(bookings), kind \in {"Confirm", "Cancel"},
          ok \in BOOLEAN :
          LET noop == IF kind = "Confirm"
                      THEN ConfirmIsNoop(bookings[b].status)
                      ELSE CancelIsNoop(bookings[b].status)
          IN /\ bookings[b].status = StatusPending
             /\ bid' = [bid EXCEPT ![p] = b]
             /\ txn' = [txn EXCEPT ![p] = [NoTxn EXCEPT !.kind = kind,
                                                        !.err = ~ok]]
             /\ IF ok /\ ~noop
                THEN /\ seen' = [seen EXCEPT ![p] = bookings[b].status]
                     /\ pc' = [pc EXCEPT ![p] = "st_update"]
                     /\ ret' = ret
                ELSE /\ seen' = seen
                     /\ pc' = [pc EXCEPT ![p] = "st_done"]
                     /\ ret' = [ret EXCEPT ![p] =
                                  IF ok THEN "noop" ELSE "get_err"]
    /\ UNCHANGED <<storeVars, published, cacheVars, listed, createLocals,
                   todo, existing, rsv, released, statsWarn>>

\* s.repo.UpdateStatus(ctx, bookingID, status): an error is returned
DirectUpdate(p) ==
    /\ p \in Reservers
    /\ pc[p] = "st_update"
    /\ \E ok \in BOOLEAN :
          IF ok
          THEN /\ bookings' =
                     UpdateStatus(bookings, bid[p],
                                  IF txn[p].kind = "Confirm"
                                  THEN StatusConfirmed ELSE StatusCancelled)
               /\ pc' = [pc EXCEPT ![p] = IF txn[p].kind = "Confirm"
                                          THEN "st_tickets" ELSE "st_release"]
               /\ UNCHANGED <<ret, txn>>
          ELSE /\ bookings' = bookings
               /\ pc' = [pc EXCEPT ![p] = "st_done"]
               /\ ret' = [ret EXCEPT ![p] = "update_err"]
               /\ txn' = [txn EXCEPT ![p].err = TRUE]
    /\ seen' = [seen EXCEPT ![p] = "none"]
    /\ UNCHANGED <<events, lock, published, cacheVars, listed, bid,
                   createLocals, todo, existing, rsv, released, statsWarn>>

\* s.reserver.Release(ctx, b.EventID, b.Quantity) of CancelBooking: the
\* clamped UPDATE with its cache writes; an error is logged and ignored
DirectRelease(p) ==
    /\ p \in Reservers
    /\ pc[p] = "st_release"
    /\ LET e == bookings[bid[p]].event
           r == Release(events[e].remaining, bookings[bid[p]].qty,
                        events[e].capacity)
       IN \E ok \in BOOLEAN, cok \in CacheCall, dok \in CacheCall :
             IF ok
             THEN /\ lock[e] = NoProc
                  /\ events' = [events EXCEPT ![e].remaining = r]
                  /\ cacheRemaining' =
                        IF cok THEN SyncRemaining(cacheRemaining, e, r)
                        ELSE cacheRemaining
                  /\ cacheList' = IF dok THEN NoEntry ELSE cacheList
             ELSE UNCHANGED <<events, cacheRemaining, cacheList>>
    /\ pc' = [pc EXCEPT ![p] = "st_tickets"]
    /\ UNCHANGED <<lock, bookings, published, cacheStats, marker, cacheUp,
                   listed, txn, bid, createLocals, seen, todo, existing, rsv,
                   ret, released, statsWarn>>

\* the end of ConfirmBooking and CancelBooking after updateEventStatsCache
\* has returned: its error is logged, the marker is deleted, the call
\* returns nil
DirectFinish(p, statsOk) ==
    /\ statsWarn' = [statsWarn EXCEPT ![p] = ~statsOk]
    /\ \E dok \in CacheCall :
          marker' = IF dok THEN marker \ {bid[p]} ELSE marker
    /\ pc' = [pc EXCEPT ![p] = "st_done"]
    /\ ret' = [ret EXCEPT ![p] = "settled"]

\* updateEventStatsCache, the first query: SUM(quantity) of the CONFIRMED
\* rows of the event, as the table is now
StatsTickets(p) ==
    /\ p \in Reservers
    /\ pc[p] = "st_tickets"
    /\ \E qok \in BOOLEAN :
          IF qok
          THEN /\ txn' = [txn EXCEPT ![p].tickets =
                             SumQty(bookings, Len(bookings),
                                    bookings[bid[p]].event, {StatusConfirmed})]
               /\ pc' = [pc EXCEPT ![p] = "st_revenue"]
               /\ UNCHANGED <<marker, ret, statsWarn>>
          ELSE /\ DirectFinish(p, FALSE)
               /\ txn' = txn
    /\ UNCHANGED <<storeVars, published, cacheRemaining, cacheStats, cacheUp,
                   cacheList, listed, bid, createLocals, seen, todo, existing,
                   rsv, released>>

\* the second query: SUM(quantity * unit_price_cents) of the CONFIRMED rows
\* of the event, as the table is now
StatsRevenue(p) ==
    /\ p \in Reservers
    /\ pc[p] = "st_revenue"
    /\ \E qok \in BOOLEAN :
          IF qok
          THEN /\ txn' = [txn EXCEPT ![p].revenueCents =
                             SumRevenue(bookings, Len(bookings),
                                        bookings[bid[p]].event,
                                        {StatusConfirmed})]
               /\ pc' = [pc EXCEPT ![p] = "st_set"]
               /\ UNCHANGED <<marker, ret, statsWarn>>
          ELSE /\ DirectFinish(p, FALSE)
               /\ txn' = txn
    /\ UNCHANGED <<storeVars, published, cacheRemaining, cacheStats, cacheUp,
                   cacheList, listed, bid, createLocals, seen, todo, existing,
                   rsv, released>>

\* s.cache.Set(ctx, cacheKey, string(data), 0) with the blob built from
\* the two sums scanned; then the end of the calling function
StatsSet(p) ==
    /\ p \in Reservers
    /\ pc[p] = "st_set"
    /\ \E sok \in CacheCall :
          /\ cacheStats' =
                IF sok
                THEN [cacheStats EXCEPT ![bookings[bid[p]].event] =
                        StatsBlob(txn[p].tickets, txn[p].revenueCents)]
                ELSE cacheStats
          /\ DirectFinish(p, sok)
    /\ UNCHANGED <<storeVars, published, cacheRemaining, cacheUp, cacheList,
                   listed, txn, bid, createLocals, seen, todo, existing, rsv,
                   released>>

\* the caller takes the result
DirectReturn(p) ==
    /\ p \in Reservers
    /\ pc[p] = "st_done"
    /\ pc' = [pc EXCEPT ![p] = "idle"]
    /\ ret' = [ret EXCEPT ![p] = "none"]
    /\ bid' = [bid EXCEPT ![p] = 0]
    /\ txn' = [txn EXCEPT ![p] = NoTxn]
    /\ statsWarn' = [statsWarn EXCEPT ![p] = FALSE]
    /\ UNCHANGED <<storeVars, published, cacheVars, listed, createLocals,
                   seen, todo, existing, rsv, released>>

(***************************************************************************)
(* Specifications.                                                         *)
(***************************************************************************)
\* concurrent CreateBooking calls alone
NextCreate ==
    \E p \in Clients :
        \/ CreateBooking(p)
        \/ ReserveTx(p)
        \/ CommitTx(p)
        \/ Publish(p)
        \/ SetPendingMarker(p)
        \/ CreateReturn(p)

SpecCreate == Init /\ [][NextCreate]_vars

\* a client and the worker: bookings are created while earlier ones are
\* confirmed, or cancelled by the fallback of the handler
NextSettle ==
    \E p \in Settling :
        \/ CreateBooking(p)
        \/ ReserveTx(p)
        \/ CommitTx(p)
        \/ Publish(p)
        \/ SetPendingMarker(p)
        \/ CreateReturn(p)
        \/ HandleBookingCreated(p)
        \/ HandleConfirmed(p)
        \/ HandleReturn(p)
        \/ ConfirmGet(p)
        \/ ConfirmUpdate(p)
        \/ ConfirmFinish(p)
        \/ CancelGet(p)
        \/ CancelUpdate(p)
        \/ CancelRelease(p)
        \/ CancelFinish(p)

SpecSettle == Init /\ [][NextSettle]_vars

\* deliveries and redeliveries to the worker of the messages of bookings
\* already created, the cache up: the calls of the worker follow one another
NextDeliver ==
    \/ Redeliver
    \/ \E p \in Workers :
        \/ HandleBookingCreated(p)
        \/ HandleConfirmed(p)
        \/ HandleReturn(p)
        \/ ConfirmGet(p)
        \/ ConfirmUpdate(p)
        \/ ConfirmFinish(p)
        \/ CancelGet(p)
        \/ CancelUpdate(p)
        \/ CancelRelease(p)
        \/ CancelFinish(p)

SpecDeliver == InitBooked /\ [][NextDeliver]_vars

\* the worker alone on the messages of bookings already created, each
\* delivered once, the cache up: its calls follow one another
NextWorker ==
    \E p \in Workers :
        \/ HandleBookingCreated(p)
        \/ HandleConfirmed(p)
        \/ HandleReturn(p)
        \/ ConfirmGet(p)
        \/ ConfirmUpdate(p)
        \/ ConfirmFinish(p)
        \/ CancelGet(p)
        \/ CancelUpdate(p)
        \/ CancelRelease(p)
        \/ CancelFinish(p)

SpecWorker == InitBooked /\ [][NextWorker]_vars

\* the clients and an administrator who changes ticket prices
Pricing == Clients \cup Admins

NextPrice ==
    \E p \in Pricing :
        \/ CreateBooking(p)
        \/ ReserveTx(p)
        \/ CommitTx(p)
        \/ Publish(p)
        \/ SetPendingMarker(p)
        \/ CreateReturn(p)
        \/ UpdateGet(p)
        \/ UpdateSave(p)

SpecPrice == Init /\ [][NextPrice]_vars

\* concurrent speculative reservations on the cache counter
NextReserve ==
    \E p \in Reservers :
        \/ ServiceReserve(p)
        \/ ReserveRollback(p)
        \/ ReserveReturn(p)

SpecReserve == InitCached /\ [][NextReserve]_vars

\* the whole lifecycle: client, worker and sweeper
Next ==
    \E p \in Lifecycle :
        \/ CreateBooking(p)
        \/ ReserveTx(p)
        \/ CommitTx(p)
        \/ Publish(p)
        \/ SetPendingMarker(p)
        \/ CreateReturn(p)
        \/ HandleBookingCreated(p)
        \/ HandleConfirmed(p)
        \/ HandleReturn(p)
        \/ ConfirmGet(p)
        \/ ConfirmUpdate(p)
        \/ ConfirmFinish(p)
        \/ CancelGet(p)
        \/ CancelUpdate(p)
        \/ CancelRelease(p)
        \/ CancelFinish(p)
        \/ Sweep(p)
        \/ SweepNext(p)

Spec == Init /\ [][Next]_vars

\* a client and the sweeper, the worker being down: no message is consumed
Sweeping == {"c1"} \cup Sweepers

NextSweep ==
    \E p \in Sweeping :
        \/ CreateBooking(p)
        \/ ReserveTx(p)
        \/ CommitTx(p)
        \/ Publish(p)
        \/ SetPendingMarker(p)
        \/ CreateReturn(p)
        \/ CancelGet(p)
        \/ CancelUpdate(p)
        \/ CancelRelease(p)
        \/ CancelFinish(p)
        \/ Sweep(p)
        \/ SweepNext(p)

\* the sweeper keeps running: a tick it has begun goes on, call after call
SweeperRuns ==
    \A p \in Sweepers :
        /\ WF_vars(SweepNext(p))
        /\ WF_vars(CancelGet(p))
        /\ WF_vars(CancelUpdate(p))
        /\ WF_vars(CancelRelease(p))
        /\ WF_vars(CancelFinish(p))

\* time passes: the bookings that stay PENDING get older than the cutoff,
\* so that the ticks do not leave them out for ever
CutoffAdvances ==
    \A p \in Sweepers :
        SF_vars(Sweep(p)
                /\ todo'[p] = ListPendingOlderThan(bookings, Len(bookings)))

\* the store is eventually available: the load and the status update of
\* the sweeper's CancelBooking calls do not fail for ever
StoreEventuallyUp ==
    \A p \in Sweepers :
        /\ SF_vars(CancelGet(p) /\ pc'[p] # "sw_next")
        /\ SF_vars(CancelUpdate(p) /\ pc'[p] = "cancel_release")

SpecSweep ==
    /\ Init
    /\ [][NextSweep]_vars
    /\ SweeperRuns
    /\ CutoffAdvances
    /\ StoreEventuallyUp

\* concurrent Release calls on events some of whose seats are booked
NextRelease ==
    \E p \in Reservers :
        \/ ReleaseExec(p)
        \/ ReleaseGet(p)
        \/ ReleaseSet(p)
        \/ ReleaseReturn(p)

SpecRelease == InitBooked /\ [][NextRelease]_vars

\* concurrent CreateBooking calls while the event.Service.Reserve calls of
\* one caller move the cache counter away from the remaining of the row,
\* the cache server being up (its calls succeed or fail) or down (they all
\* fail)
Diverging == {"r1"}

NextAnyCache ==
    \/ \E p \in Clients :
          \/ CreateBooking(p)
          \/ ReserveTx(p)
          \/ CommitTx(p)
          \/ Publish(p)
          \/ SetPendingMarker(p)
          \/ CreateReturn(p)
    \/ \E p \in Diverging :
          \/ ServiceReserve(p)
          \/ ReserveRollback(p)
          \/ ReserveReturn(p)

SpecAnyCache == InitAnyCache /\ [][NextAnyCache]_vars

\* the worker on the messages of bookings already created and on messages
\* nobody published (bodies that are not JSON, ids the ledger does not
\* hold), while a client looks bookings up
Readers == {"c1"}

NextConsume ==
    \/ \E p \in Workers :
          \/ HandleBookingCreated(p)
          \/ \E body \in ForeignBodies : HandleBody(p, body)
          \/ HandleConfirmed(p)
          \/ HandleReturn(p)
          \/ ConfirmGet(p)
          \/ ConfirmUpdate(p)
          \/ ConfirmFinish(p)
          \/ CancelGet(p)
          \/ CancelUpdate(p)
          \/ CancelRelease(p)
          \/ CancelFinish(p)
    \/ \E p \in Readers :
          \/ GetBooking(p)
          \/ GetReturn(p)

SpecConsume == InitBooked /\ [][NextConsume]_vars

\* clients list the events while an administrator changes prices
NextList ==
    \/ \E p \in Clients :
          \/ ListGet(p)
          \/ ListStore(p)
          \/ ListReturn(p)
    \/ \E p \in Admins :
          \/ UpdateGet(p)
          \/ UpdateSave(p)
    \/ ListExpire

SpecList == InitListed /\ [][NextList]_vars

\* concurrent callers of the two reservation primitives
NextPrimitives ==
    \E p \in Reservers :
        \/ ServiceReserveTx(p)
        \/ RepoLockRead(p)
        \/ RepoCheckSave(p)
        \/ TxCommit(p)
        \/ TxReturn(p)

SpecPrimitives == InitCached /\ [][NextPrimitives]_vars

\* a client and an administrator who changes capacities
Resizing == {"c1"} \cup Admins

NextCapacity ==
    \E p \in Resizing :
        \/ CreateBooking(p)
        \/ ReserveTx(p)
        \/ CommitTx(p)
        \/ Publish(p)
        \/ SetPendingMarker(p)
        \/ CreateReturn(p)
        \/ UpdateGet(p)
        \/ UpdateSaveCapacity(p)

SpecCapacity == Init /\ [][NextCapacity]_vars

\* a client and the worker, the cache server being up: the worker settles
\* a booking while the CreateBooking call that made it is still running
NextMarker ==
    \E p \in Settling :
        \/ CreateBooking(p)
        \/ ReserveTx(p)
        \/ CommitTx(p)
        \/ Publish(p)
        \/ SetPendingMarker(p)
        \/ CreateReturn(p)
        \/ HandleBookingCreated(p)
        \/ HandleConfirmed(p)
        \/ HandleReturn(p)
        \/ ConfirmGet(p)
        \/ ConfirmUpdate(p)
        \/ ConfirmFinish(p)
        \/ CancelGet(p)
        \/ CancelUpdate(p)
        \/ CancelRelease(p)
        \/ CancelFinish(p)

SpecMarker == InitCached /\ [][NextMarker]_vars

\* concurrent direct calls of ConfirmBooking and CancelBooking on bookings
\* already created
NextStats ==
    \E p \in Reservers :
        \/ DirectGet(p)
        \/ DirectUpdate(p)
        \/ DirectRelease(p)
        \/ StatsTickets(p)
        \/ StatsRevenue(p)
        \/ StatsSet(p)
        \/ DirectReturn(p)

SpecStats == InitBooked /\ [][NextStats]_vars

\* concurrent CreateBooking calls with any quantity
NextDirect ==
    \E p \in Clients :
        \/ CreateBookingDirect(p)
        \/ ReserveTx(p)
        \/ CommitTx(p)
        \/ Publish(p)
        \/ SetPendingMarker(p)
        \/ CreateReturn(p)

SpecDirect == Init /\ [][NextDirect]_vars

\* two events side by side: client c1 books e1 and the worker settles the
\* bookings it is sent, while client c2 runs reservation transactions on e2,
\* each holding the row lock of e2 until it commits or rolls back; every
\* call is for one ticket
NextFrame ==
    \/ \E p \in Settling :
          \/ CreateBooking(p) /\ cev'[p] = "e1" /\ cqty'[p] = MinTicketsPerBooking
          \/ ReserveTx(p)
          \/ CommitTx(p)
          \/ Publish(p)
          \/ SetPendingMarker(p)
          \/ CreateReturn(p)
          \/ HandleBookingCreated(p)
          \/ HandleConfirmed(p)
          \/ HandleReturn(p)
          \/ ConfirmGet(p)
          \/ ConfirmUpdate(p)
          \/ ConfirmFinish(p)
          \/ CancelGet(p)
          \/ CancelUpdate(p)
          \/ CancelRelease(p)
          \/ CancelFinish(p)
    \/ \E p \in Clients \ Settling :
          \/ CreateBooking(p) /\ cev'[p] = "e2" /\ cqty'[p] = MinTicketsPerBooking
          \/ ReserveTx(p)
          \/ CommitTx(p)
          \/ CreateReturn(p)

SpecFrame == InitFrame /\ [][NextFrame]_vars

(***************************************************************************)
(* Inventory safety.                                                       *)
(***************************************************************************)
\* C1: for every event, the quantities of its PENDING and CONFIRMED
\* bookings never sum to more than its capacity
C1_NoOversell ==
    \A e \in Events :
        SumQty(bookings, Len(bookings), e, {StatusPending, StatusConfirmed})
            <= events[e].capacity

\* C2: the remaining counter of the store is never negative
C2_RemainingNonNegative ==
    \A e \in Events : events[e].remaining >= 0

\* a request was denied at remaining = 0 after seats had been released
C2_Witness ==
    \E e \in Events, p \in Clients, b \in BookingIds :
        /\ events[e].remaining = 0
        /\ ret[p] = "ErrNotEnoughTickets"
        /\ released[b] > 0

\* C3: whenever no call is in progress, remaining equals capacity minus the
\* quantities of the PENDING and CONFIRMED bookings of the event
C3_Accounting ==
    (\A p \in Procs : pc[p] = "idle") =>
        \A e \in Events :
            events[e].remaining =
                events[e].capacity
                - SumQty(bookings, Len(bookings), e,
                         {StatusPending, StatusConfirmed})

\* C4: among concurrent CreateBooking calls the granted quantities never sum
\* to more than the seats there were; a call whose reservation the store
\* evaluates is granted when remaining >= qty, and answered
\* ErrNotEnoughTickets only when remaining < qty at that moment (a store
\* failure apart)
C4_ConcurrentCreate ==
    /\ [](\A e \in Events :
             SumQty(bookings, Len(bookings), e,
                    {StatusPending, StatusConfirmed, StatusCancelled}) <= Cap)
    /\ [][\A p \in Clients :
             (pc[p] = "cb_reserve" /\ pc'[p] # "cb_reserve") =>
                 \/ pc'[p] = "cb_done" /\ ret'[p] = "store_error"
                 \/ /\ events[cev[p]].remaining >= cqty[p]
                    /\ pc'[p] = "cb_tx"
                    /\ lock'[cev[p]] = p
                 \/ /\ events[cev[p]].remaining < cqty[p]
                    /\ pc'[p] = "cb_done"
                    /\ ret'[p] = "ErrNotEnoughTickets"]_vars

\* one call has committed its booking while the other one was denied
C4_Witness ==
    \E p \in Clients, q \in Clients :
        /\ p # q
        /\ pc[p] = "cb_done" /\ ret[p] = "ErrNotEnoughTickets"
        /\ pc[q] = "cb_publish"
        /\ \E e \in Events : events[e].remaining < MinTicketsPerBooking

(***************************************************************************)
(* Booking state machine.                                                  *)
(***************************************************************************)
\* C5: a CONFIRMED booking stays CONFIRMED, and a CancelBooking call that
\* loaded it as CONFIRMED changes no remaining counter
C5_ConfirmedTerminal ==
    [][/\ \A b \in 1..Len(bookings) :
             bookings[b].status = StatusConfirmed =>
                 bookings'[b].status = StatusConfirmed
       /\ \A p \in Workers \cup Sweepers :
             (pc[p] = "cancel_release" /\ seen[p] = StatusConfirmed) =>
                 events' = events]_vars

\* C6: a CANCELLED booking stays CANCELLED: no ConfirmBooking call sets it
\* to CONFIRMED
C6_CancelledTerminal ==
    [][\A b \in 1..Len(bookings) :
           bookings[b].status = StatusCancelled =>
               bookings'[b].status = StatusCancelled]_vars

\* C7: ConfirmBooking on a booking that is already CONFIRMED returns at once
\* (nil when the load succeeded) and writes nothing: no status, no
\* statistics, no cache key set or deleted
C7_ConfirmIdempotent ==
    [][\A p \in Workers :
           (/\ pc[p] = "confirm_get"
            /\ pc'[p] # "confirm_get"
            /\ bookings[bid[p]].status = StatusConfirmed) =>
               /\ UNCHANGED <<storeVars, cacheVars, released>>
               /\ \/ pc'[p] = "hb_confirmed" /\ ret'[p] = "confirm_noop"
                  \/ pc'[p] = "cancel_get" /\ ret'[p] = "none"]_vars

\* a redelivery found its booking CONFIRMED and ConfirmBooking returned nil
C7_Witness ==
    \E p \in Workers :
        /\ pc[p] = "hb_confirmed"
        /\ ret[p] = "confirm_noop"
        /\ bookings[bid[p]].status = StatusConfirmed

\* C8: CancelBooking on a booking that is already CANCELLED returns at once
\* (nil when the load succeeded), performs no Release and leaves remaining
\* as it was
C8_CancelIdempotent ==
    [][\A p \in Workers \cup Sweepers :
           (/\ pc[p] = "cancel_get"
            /\ pc'[p] # "cancel_get"
            /\ bookings[bid[p]].status = StatusCancelled) =>
               /\ UNCHANGED <<storeVars, cacheVars, released>>
               /\ pc'[p] = AfterCancel(p)
               /\ ret'[p] \in {CancelResult(p, "cancel_noop"),
                               CancelResult(p, "cancel_get_err")}]_vars

\* a second CancelBooking call found its booking CANCELLED, its seats
\* released by the first one, and returned nil
C8_Witness ==
    \E p \in Workers :
        /\ pc[p] = "hb_done"
        /\ ret[p] = "cancel_noop"
        /\ bookings[bid[p]].status = StatusCancelled
        /\ released[bid[p]] = bookings[bid[p]].qty

\* C9: the concurrent transition attempts on one PENDING booking release
\* its quantity at most once: together they add no more seats to remaining
\* than the booking holds
C9_ReleasedOnce ==
    \A b \in 1..Len(bookings) : released[b] <= bookings[b].qty

\* C10: the Release of a CancelBooking call that loaded its booking as
\* PENDING adds exactly the quantity of the booking to remaining, within
\* the capacity
C10_ReleaseExact ==
    [][\A p \in Workers \cup Sweepers :
           (/\ pc[p] = "cancel_release"
            /\ pc'[p] = "cancel_finish"
            /\ seen[p] = StatusPending) =>
               LET e == bookings[bid[p]].event
               IN /\ events'[e].remaining
                        = events[e].remaining + bookings[bid[p]].qty
                  /\ events'[e].remaining <= events[e].capacity]_vars

(***************************************************************************)
(* Failure handling of CancelBooking and CreateBooking.                    *)
(***************************************************************************)
\* C11: a CancelBooking call that moved its booking to CANCELLED and
\* returned nil has returned the quantity of the booking to remaining: no
\* state has the booking CANCELLED, the call answered with success and the
\* seats still held
C11_CancelReturnsSeats ==
    \A p \in Workers :
        (/\ pc[p] = "hb_done"
         /\ ret[p] = "cancel_ok"
         /\ bookings[bid[p]].status = StatusCancelled) =>
            released[bid[p]] = bookings[bid[p]].qty

\* C12: a CreateBooking call denied for insufficient capacity (remaining <
\* qty when the store evaluates the reservation) returns
\* ErrNotEnoughTickets, and from the denial to its return it writes no
\* booking row, leaves remaining as it was, publishes no message and sets
\* no timeout marker
C12_DeniedCreate ==
    [][\A p \in Clients :
          /\ (pc[p] = "cb_reserve" /\ ret'[p] = "ErrNotEnoughTickets") =>
                /\ events[cev[p]].remaining < cqty[p]
                /\ pc'[p] = "cb_done"
                /\ UNCHANGED <<events, bookings, published, marker>>
          /\ (ret[p] = "ErrNotEnoughTickets" /\ pc'[p] # pc[p]) =>
                /\ pc[p] = "cb_done"
                /\ pc'[p] = "idle"
                /\ UNCHANGED <<events, bookings, published, marker>>]_vars

\* a call was denied although seats remain, fewer than it asked for, an
\* earlier booking holding the others
C12_Witness ==
    \E p \in Clients :
        /\ pc[p] = "cb_done"
        /\ ret[p] = "ErrNotEnoughTickets"
        /\ Len(bookings) > 0
        /\ \A e \in Events : events[e].remaining > 0

\* C13: CreateBooking is atomic with respect to store errors: when a step
\* of the transaction fails after the reservation was granted (loading the
\* event, inserting the row), the transaction rolls back, so remaining is
\* unchanged, no booking row exists and nothing is published; hence every
\* seat taken from remaining has its booking row, and every row its seats
C13_AtomicCreate ==
    /\ [](\A e \in Events :
             events[e].remaining =
                 events[e].capacity
                 - SumQty(bookings, Len(bookings), e, {StatusPending}))
    /\ [][\A p \in Clients :
             /\ (pc[p] = "cb_tx" /\ ret'[p] = "tx_error") =>
                   /\ pc'[p] = "cb_done"
                   /\ lock'[cev[p]] = NoProc
                   /\ UNCHANGED <<events, bookings, published, marker>>
             /\ (ret[p] = "tx_error" /\ pc'[p] # pc[p]) =>
                   /\ pc[p] = "cb_done"
                   /\ pc'[p] = "idle"
                   /\ UNCHANGED <<events, bookings, published, marker>>]_vars

\* a granted reservation was rolled back and CreateBooking is about to
\* return the error: every seat is back, there is no row and no message
C13_Witness ==
    \E p \in Clients :
        /\ pc[p] = "cb_done"
        /\ ret[p] = "tx_error"
        /\ bookings = <<>>
        /\ published = {}
        /\ \A e \in Events : events[e].remaining = events[e].capacity

C16_WorkerFallback ==
    /\ [](\A p \in Workers :
             (\/ pc[p] = "hb_confirmed"
              \/ pc[p] = "hb_done" /\ ~IsErr(ret[p])) =>
                 bookings[bid[p]].status # StatusPending)
    /\ [][\A p \in Workers :
             /\ (pc[p] = "idle" /\ pc'[p] # "idle") =>
                   pc'[p] = "confirm_get"
             /\ (/\ pc[p] \in {"confirm_get", "confirm_update"}
                 /\ pc'[p] \notin {pc[p], "confirm_update", "confirm_finish",
                                   "hb_confirmed"}) =>
                   /\ pc'[p] = "cancel_get"
                   /\ bid'[p] = bid[p]
                   /\ UNCHANGED <<events, bookings>>]_vars

\* ConfirmBooking failed, the fallback CancelBooking cancelled the booking
\* and returned its seats, and the handler is about to return nil
C16_Witness ==
    \E p \in Workers :
        /\ pc[p] = "hb_done"
        /\ ret[p] = "cancel_ok"
        /\ bookings[bid[p]].status = StatusCancelled
        /\ released[bid[p]] = bookings[bid[p]].qty
        /\ bid[p] \notin published

\* C17: handling a message again is idempotent: a delivery that finds its
\* booking already moved out of PENDING by an earlier delivery (the worker
\* is the only process here, so a status loaded as CONFIRMED or CANCELLED
\* was written while an earlier delivery of the same message was handled)
\* changes neither the status of the booking nor remaining
C17_RedeliveryIdempotent ==
    [][\A p \in Workers :
          /\ (/\ pc[p] \in {"confirm_update", "cancel_update"}
              /\ seen[p] # StatusPending) => bookings' = bookings
          /\ (/\ pc[p] = "cancel_release"
              /\ seen[p] # StatusPending) => events' = events]_vars

C19_PriceSnapshot ==
    [][/\ \A b \in 1..Len(bookings) :
             bookings'[b].price = bookings[b].price
       /\ Len(bookings') > Len(bookings) =>
             LET b == bookings'[Len(bookings')]
             IN /\ b.price = events[b.event].price
                /\ b.price = events'[b.event].price]_vars

\* the price of an event was changed between two bookings: the earlier one
\* keeps the old price, the later one has the new price
C19_Witness ==
    \E b \in 1..Len(bookings), c \in 1..Len(bookings) :
        /\ b < c
        /\ bookings[b].event = bookings[c].event
        /\ bookings[b].price \in Prices
        /\ bookings[c].price \notin Prices
        /\ bookings[c].price = events[bookings[c].event].price

(***************************************************************************)
(* Speculative reservation.                                                *)
(***************************************************************************)
\* C20: event.Service.Reserve decrements the cache counter by qty in one
\* atomic operation; when the value after the decrement is >= 0 it returns
\* granted; when it is negative it adds qty back, returns not granted
\* without an error, and the call has left the counter as it found it
C20_SpeculativeReserve ==
    [][\A p \in Reservers :
          /\ (pc[p] = "idle" /\ pc'[p] # "idle") =>
                \/ /\ ret'[p] = "cache_error"
                   /\ pc'[p] = "rs_done"
                   /\ cacheRemaining' = cacheRemaining
                \/ \E e \in Events, q \in Quantities :
                      /\ cacheRemaining' =
                            [cacheRemaining EXCEPT ![e] = @ - q]
                      /\ IF cacheRemaining[e] - q >= 0
                         THEN pc'[p] = "rs_done" /\ ret'[p] = "granted"
                         ELSE /\ pc'[p] = "rs_rollback"
                              /\ rsv'[p] = [event |-> e, qty |-> q]
          /\ (pc[p] = "rs_rollback" /\ pc'[p] # "rs_rollback") =>
                /\ cacheRemaining' =
                      [cacheRemaining EXCEPT ![rsv[p].event] = @ + rsv[p].qty]
                /\ pc'[p] = "rs_done"
                /\ ret'[p] = "denied"]_vars

(***************************************************************************)
(* Release.                                                                *)
(***************************************************************************)
\* C21: after any sequence of Release calls on an event, the same quantity
\* released twice included, the remaining of its row is never more than its
\* capacity
C21_ReleaseClamped ==
    \A e \in Events : events[e].remaining <= events[e].capacity

\* the UPDATE of two Release calls for the quantity of the only booking
\* has been committed, and the remaining is the capacity
C21_Witness ==
    /\ Len(bookings) = 1
    /\ \A p \in Reservers :
          /\ pc[p] = "rl_get"
          /\ rsv[p] = [event |-> bookings[1].event, qty |-> bookings[1].qty]
    /\ events[bookings[1].event].remaining = events[bookings[1].event].capacity

C23_CacheIndependent ==
    [][\A p \in Clients :
          LET e == cev[p]
              q == cqty[p]
          IN /\ (pc[p] = "cb_reserve" /\ pc'[p] # "cb_reserve") =>
                   /\ pc'[p] = "cb_tx" => events[e].remaining >= q
                   /\ ret'[p] = "ErrNotEnoughTickets" => events[e].remaining < q
                   /\ pc'[p] = "cb_tx" \/ ret'[p] \in {"ErrNotEnoughTickets",
                                                       "store_error"}
                   /\ UNCHANGED <<events, bookings>>
             /\ (pc[p] = "cb_tx" /\ pc'[p] # "cb_tx") =>
                   \/ /\ pc'[p] = "cb_publish"
                      /\ events' = [events EXCEPT ![e].remaining = @ - q]
                      /\ bookings' = Append(bookings,
                                        [event |-> e, qty |-> q,
                                         price |-> events[e].price,
                                         status |-> StatusPending])
                   \/ /\ pc'[p] = "cb_done"
                      /\ ret'[p] = "tx_error"
                      /\ UNCHANGED <<events, bookings>>
             /\ (\A c \in Clients : pc[c] # "cb_tx" \/ pc'[c] = "cb_tx") =>
                   UNCHANGED <<events, bookings>>]_vars

\* a transaction holds a granted reservation for more seats than the
\* counter of the cache, which is up, shows
C23_Witness ==
    \E p \in Clients :
        /\ pc[p] = "cb_tx"
        /\ cacheUp
        /\ cacheRemaining[cev[p]] < cqty[p]

(***************************************************************************)
(* Error outcomes of the worker and of the lookups.                        *)
(***************************************************************************)
\* C24: HandleBookingCreated on a body that is not valid JSON returns an
\* error and changes nothing: it loads and writes no booking, releases no
\* seat, and writes and deletes no cache key
C24_InvalidJSON ==
    [][\A p \in Workers, body \in InvalidBodies :
          HandleBody(p, body) =>
             /\ pc'[p] = "hb_done"
             /\ ret'[p] = "unmarshal_err"
             /\ UNCHANGED <<events, bookings, released, seen, bid, published,
                            cacheVars>>]_vars

\* the handler has returned the error of json.Unmarshal
C24_Witness ==
    \E p \in Workers : pc[p] = "hb_done" /\ ret[p] = "unmarshal_err"

\* C25: a failed lookup of a booking is an outcome of its own: Get,
\* ConfirmBooking and CancelBooking on an id the ledger does not hold fail,
\* and whenever their lookup fails they hand the error to their caller
\* (HandleBookingCreated falls back to CancelBooking on the error of
\* ConfirmBooking and returns the one of CancelBooking) and change no
\* booking, no remaining and no cache entry
C25_NotFound ==
    [][/\ \A p \in Workers :
             LET missing == bid[p] \notin 1..Len(bookings)
             IN /\ (pc[p] = "confirm_get" /\ pc'[p] # "confirm_get") =>
                      /\ missing => pc'[p] = "cancel_get"
                      /\ pc'[p] = "cancel_get" =>
                            UNCHANGED <<events, bookings, released, cacheVars>>
                /\ (pc[p] = "cancel_get" /\ pc'[p] # "cancel_get") =>
                      /\ missing => (pc'[p] = "hb_done"
                                     /\ ret'[p] = "cancel_get_err")
                      /\ ret'[p] = "cancel_get_err" =>
                            UNCHANGED <<events, bookings, released, cacheVars>>
       /\ \A p \in Readers :
             (pc[p] = "idle" /\ pc'[p] = "gb_done") =>
                /\ bid'[p] \notin 1..Len(bookings) => ret'[p] = "get_err"
                /\ UNCHANGED <<events, bookings, released, cacheVars>>]_vars

\* the worker returns the error of CancelBooking for an id the ledger does
\* not hold, and a client was told that the same id is not found
C25_Witness ==
    /\ \E p \in Workers :
          /\ pc[p] = "hb_done"
          /\ ret[p] = "cancel_get_err"
          /\ bid[p] \notin 1..Len(bookings)
    /\ \E p \in Readers :
          /\ pc[p] = "gb_done"
          /\ ret[p] = "get_err"
          /\ bid[p] \notin 1..Len(bookings)

(***************************************************************************)
(* The cached list of the events.                                          *)
(***************************************************************************)
\* C26: List answers from the cache exactly when its lookup of events:list
\* succeeds and the entry decodes, and then returns the decoded list without
\* going to the store; after a miss, a failed lookup or an entry that does
\* not decode it returns the list of the store and stores it under the key
\* unless that cache call fails; it returns an error only when the query of
\* the store failed, never because of the cache
C26_ListFallback ==
    [][\A p \in Clients :
          /\ (pc[p] = "idle" /\ pc'[p] \in {"ls_done", "ls_store"}) =>
                LET d == DecodeList(cacheList)
                    decodable == cacheList # NoEntry /\ d.ok
                IN /\ pc'[p] = "ls_done" =>
                         /\ decodable
                         /\ listed'[p].evts = d.evts
                         /\ ~listed'[p].err
                   /\ (decodable /\ "get failed" \notin listed'[p].log) =>
                         pc'[p] = "ls_done"
                   /\ UNCHANGED <<events, cacheList>>
          /\ (pc[p] = "ls_store" /\ pc'[p] = "ls_done") =>
                /\ listed'[p].err <=> "db failed" \in listed'[p].log
                /\ ~listed'[p].err => listed'[p].evts = events
                /\ cacheList' \in {cacheList, EncodeList(events)}
                /\ (~listed'[p].err /\ "set failed" \notin listed'[p].log) =>
                      cacheList' = EncodeList(events)
                /\ events' = events]_vars

\* one List call returned the cached list, which is no longer the list of
\* the store, while another, whose cache lookup failed and whose cache
\* write failed, returned the list of the store
C26_Witness ==
    \E p, q \in Clients :
        /\ pc[p] = "ls_done"
        /\ listed[p].log = {"from cache"}
        /\ listed[p].evts # events
        /\ pc[q] = "ls_done"
        /\ listed[q].log = {"get failed", "from database", "set failed"}
        /\ listed[q].evts = events
        /\ ~listed[q].err

(***************************************************************************)
(* The reservation primitives of the store.                                *)
(***************************************************************************)
\* C27: event.Service.ReserveTx on a row with remaining r and a quantity q,
\* when the store does not fail, grants exactly when r >= q; a call that is
\* not granted returns false without an error and writes nothing; the row
\* keeps its remaining while the granting transaction is open, and when
\* that transaction commits the remaining becomes exactly r - q
C27_ReserveTxResult ==
    [][\A p \in Reservers :
          /\ (pc[p] = "idle" /\ txn'[p].kind = "Reserve") =>
                LET r == events[rsv'[p].event].remaining
                    q == rsv'[p].qty
                IN /\ ~txn'[p].err => (txn'[p].granted <=> r >= q)
                   /\ txn'[p].err => ~txn'[p].granted
                   /\ ~txn'[p].granted => (pc'[p] = "pr_done" /\ lock' = lock)
                   /\ events' = events
          /\ (pc[p] = "pr_commit" /\ txn[p].kind = "Reserve") =>
                LET r == events[rsv[p].event].remaining
                    q == rsv[p].qty
                IN /\ pc'[p] = "pr_commit" => events'[rsv[p].event].remaining = r
                   /\ (pc'[p] = "pr_done" /\ txn'[p].granted) =>
                         (r >= q /\ events'[rsv[p].event].remaining = r - q)
                   /\ (pc'[p] = "pr_done" /\ ~txn'[p].granted) =>
                         events' = events]_vars

\* one call was granted and has committed, another was denied without an
\* error: the row has nothing left
C27_Witness ==
    \E p, o \in Reservers :
        /\ pc[p] = "pr_done" /\ txn[p].kind = "Reserve" /\ txn[p].granted
        /\ pc[o] = "pr_done" /\ txn[o].kind = "Reserve"
        /\ ~txn[o].granted /\ ~txn[o].err
        /\ events[rsv[p].event].remaining = 0

\* C28: the conditional UPDATE of repo.Reserve and the lock, read and save
\* of repo.ReserveTx decide and write the same: on the row it has locked,
\* repo.ReserveTx grants exactly when the conditional UPDATE would, and
\* saves the remaining the UPDATE would leave; and concurrent transactions
\* calling either one are serialized by the row lock: nobody changes a row
\* while a transaction holds it, and each commit takes exactly the granted
\* quantity from a row that has it
C28_PrimitivesEquivalent ==
    [][\A p \in Reservers :
          LET e == rsv[p].event
              a == Reserve(events[e].remaining, rsv[p].qty)
          IN /\ (pc[p] = "pr_check" /\ pc'[p] = "pr_commit") =>
                   /\ ~txn'[p].err => txn'[p].granted = a.ok
                   /\ txn'[p].granted => txn'[p].read = a.remaining
                   /\ events' = events
             /\ (pc[p] \in {"pr_check", "pr_commit"} /\ lock[e] = p
                                                    /\ pc'[p] = pc[p]) =>
                   events'[e] = events[e]
             /\ (pc[p] = "pr_commit" /\ pc'[p] = "pr_done") =>
                   IF txn'[p].granted
                   THEN a.ok /\ events'[e].remaining = a.remaining
                   ELSE events' = events]_vars

\* a transaction of each primitive was granted and has committed, and the
\* row has lost both quantities
C28_Witness ==
    \E p, o \in Reservers :
        /\ pc[p] = "pr_done" /\ txn[p].kind = "Reserve" /\ txn[p].granted
        /\ pc[o] = "pr_done" /\ txn[o].kind = "ReserveTx" /\ txn[o].granted
        /\ rsv[p].event = rsv[o].event
        /\ events[rsv[p].event].remaining =
              events[rsv[p].event].capacity - rsv[p].qty - rsv[o].qty

(***************************************************************************)
(* Updates of an event.                                                    *)
(***************************************************************************)
\* C29: after an update of an event by an administrator, a lower or higher
\* capacity included, the remaining of the row is between 0 and its
\* capacity, and the update has not raised it above the capacity minus the
\* seats of the PENDING and CONFIRMED bookings of the event
C29_UpdateKeepsBounds ==
    [][\A p \in Admins :
          (pc[p] = "up_save" /\ pc'[p] = "idle") =>
             \A e \in Events :
                /\ 0 <= events'[e].remaining
                /\ events'[e].remaining <= events'[e].capacity
                /\ \/ events'[e].remaining <= events[e].remaining
                   \/ events'[e].remaining <=
                        events'[e].capacity
                        - SumQty(bookings', Len(bookings'), e,
                                 {StatusPending, StatusConfirmed})]_vars

\* C30: an update of an event that carries no capacity never changes the
\* remaining of the row, whatever CreateBooking or CancelBooking commits
\* between its load of the row and its save
C30_UpdateKeepsRemaining ==
    [][\A p \in Admins :
          (pc[p] = "up_save" /\ pc'[p] = "idle") =>
             \A e \in Events : events'[e].remaining = events[e].remaining]_vars

(***************************************************************************)
(* The cache counter after an authoritative reservation.                   *)
(***************************************************************************)
\* C31: when the transaction of a reservation ends and no other operation
\* on the event is in progress, the cache counter that
\* event.Service.ReserveTx wrote equals the committed remaining of the row:
\* the decremented value after a commit, the old one after a rollback
C31_CacheAfterReserve ==
    [][\A p \in Reservers :
          (/\ pc[p] = "pr_commit" /\ pc'[p] = "pr_done"
           /\ txn[p].kind = "Reserve" /\ txn[p].synced
           /\ \A o \in Reservers \ {p} : pc[o] = "idle") =>
             cacheRemaining'[rsv[p].event] =
                events'[rsv[p].event].remaining]_vars

(***************************************************************************)
(* Concurrent speculative reservations.                                    *)
(***************************************************************************)
\* C32: concurrent event.Service.Reserve calls on an event never grant more
\* than the cache counter held at the start, and once they have all
\* returned the counter is the starting value minus the granted
\* quantities.  Stated step by step on the counter plus the decrements of
\* the denied calls that still have to add them back: a granting call
\* lowers that sum by its quantity and leaves the counter at 0 or more, and
\* no other step changes it
C32_NoOverGrant ==
    [][\A e \in Events :
          LET Owed(pcs, rs) ==
                 LET Sum[S \in SUBSET Reservers] ==
                        IF S = {} THEN 0
                        ELSE LET x == CHOOSE x \in S : TRUE
                             IN rs[x].qty + Sum[S \ {x}]
                 IN Sum[{p \in Reservers :
                           pcs[p] = "rs_rollback" /\ rs[p].event = e}]
              before == cacheRemaining[e] + Owed(pc, rsv)
              after == cacheRemaining'[e] + Owed(pc', rsv')
              granting == \E p \in Reservers :
                             /\ pc[p] = "idle" /\ pc'[p] = "rs_done"
                             /\ ret'[p] = "granted"
          IN IF granting
             THEN after < before /\ cacheRemaining'[e] >= 0
             ELSE after = before]_vars

C34_MarkerOnlyPending ==
    [][\A p \in Clients :
          (/\ pc[p] = "cb_marker" /\ pc'[p] = "cb_done"
           /\ bookings[bid[p]].status # StatusPending
           /\ \A w \in Workers : pc[w] = "idle") =>
             bid[p] \notin marker']_vars

(***************************************************************************)
(* Errors of CreateBooking.                                                *)
(***************************************************************************)
\* C35: whenever CreateBooking returns an error, the call has left no
\* booking row in the ledger and has not changed the remaining of the
\* event: the call has committed no row (bid is the id of the row a call
\* committed, with which it took its seats), and the step that ends in the
\* error writes neither table
C35_ErrorLeavesNothing ==
    [][\A p \in Clients :
          (/\ pc[p] \in {"cb_reserve", "cb_tx", "cb_publish", "cb_marker"}
           /\ pc'[p] = "cb_done"
           /\ IsErr(ret'[p])) =>
             /\ bid[p] \notin 1..Len(bookings')
             /\ UNCHANGED <<events, bookings>>]_vars

C38_StatsUnderConcurrency ==
    \A e \in Events :
        (\A p \in Reservers :
            /\ pc[p] = "st_done" /\ ret[p] = "settled"
            /\ ~statsWarn[p]
            /\ bookings[bid[p]].event = e) =>
           cacheStats[e] = EventStats(bookings, e)

(***************************************************************************)
(* Quantities.                                                             *)
(***************************************************************************)
\* C39: every booking of the ledger has a quantity above 0, and a
\* CreateBooking call with a quantity of 0 or less writes no booking row and
\* does not raise the remaining of any event
C39_PositiveQuantity ==
    /\ [](\A b \in 1..Len(bookings) : bookings[b].qty > 0)
    /\ [][\A p \in Clients :
             (pc[p] \in {"cb_reserve", "cb_tx"} /\ cqty[p] <= 0
              /\ pc'[p] # pc[p]) =>
                /\ bookings' = bookings
                /\ \A e \in Events :
                      events'[e].remaining <= events[e].remaining]_vars

\* C40: the operations are scoped to one event.  A step of a CreateBooking
\* call for an event, or of the ConfirmBooking, CancelBooking and Release
\* the worker runs for a booking of an event, leaves the row of every other
\* event (its remaining), the bookings of every other event, its cache
\* counter and its cached statistics as they were.  A reservation is held
\* back only by the row lock of its own event and denied only when the
\* remaining of its own event is below the quantity: with that lock free
\* and enough remaining the reservation can be granted, whoever holds the
\* lock of the other event and whatever is left of it
C40_CrossEventFrame ==
    /\ [][\A p \in Clients \cup Workers : \A e \in DOMAIN events :
            LET a == IF p \in Clients
                     THEN IF cev[p] # NoProc THEN cev[p] ELSE cev'[p]
                     ELSE IF bid[p] \in DOMAIN bookings
                          THEN bookings[bid[p]].event ELSE NoProc
                rows(bs) == [b \in {i \in DOMAIN bs : bs[i].event = e} |-> bs[b]]
            IN (pc'[p] # pc[p] /\ a # e) =>
                  /\ events'[e] = events[e]
                  /\ rows(bookings') = rows(bookings)
                  /\ cacheRemaining'[e] = cacheRemaining[e]
                  /\ cacheStats'[e] = cacheStats[e]]_vars
    /\ [](\A p \in Clients :
            (/\ pc[p] = "cb_reserve"
             /\ lock[cev[p]] = NoProc
             /\ events[cev[p]].remaining >= cqty[p]
             /\ Len(bookings) + Cardinality(InTx) < MaxBookings) =>
               ENABLED (ReserveTxCall(p, TRUE, TRUE) /\ pc'[p] = "cb_tx"))
    /\ [][\A p \in Clients : \A cok \in BOOLEAN :
            (ReserveTxCall(p, TRUE, cok) /\ pc'[p] # "cb_tx") =>
               events[cev[p]].remaining < cqty[p]]_vars

\* the worker has confirmed a booking of e1 and cached the statistics of e1
\* while a booking of e2 is PENDING with its seat taken from e2
C40_Witness ==
    /\ \E b \in DOMAIN bookings :
          bookings[b].event = "e1" /\ bookings[b].status = StatusConfirmed
    /\ \E b \in DOMAIN bookings :
          bookings[b].event = "e2" /\ bookings[b].status = StatusPending
    /\ events["e2"].remaining < events["e2"].capacity
    /\ cacheStats["e1"] = EventStats(bookings, "e1")

====
